---- MODULE Spec2Model ----
(***************************************************************************)
(* A model of the online-retail API: the PL/pgSQL triggers on orders and   *)
(* retail (trigres.sql, enforce_positive_values), the retail routes        *)
(* (routes/retail.js) and the products API (index.js).                     *)
(*                                                                         *)
(* SQL values are nullable: NULL is the empty tuple, the integer n is <<n>>.*)
(***************************************************************************)
EXTENDS Integers, Sequences, FiniteSets, TLC

VARIABLES
    retail,     \* table retail: id -> [stockcode, quantity, unit_price]
    retail0,    \* the retail table as it was initially (history)
    orders,     \* table orders: the committed rows, in commit order
    sess,       \* per database session: the INSERT INTO orders in progress
    lock,       \* row locks on retail: id -> holding session, or NoSession
    nextId,     \* the retail_id_seq sequence
    guard,      \* the last evaluation of enforce_positive_values (history)
    resp,       \* the HTTP response of the last retail request
    inventory,  \* table inventory: stock_code -> [current_stock, available_stock]
    env,        \* process.env.NODE_ENV ("unset" when the variable is not set)
    built,      \* the statements GET /api/products built last and before that
    conn,       \* per connection of db's pool: its open transaction
    test,       \* per request slot: the trigger-test request being served
    products,   \* table products: product_id -> row
    order_items,            \* rows of order_items per product_id
    inventory_movements,    \* rows of inventory_movements per product_id
    nextPid,    \* the products_product_id_seq sequence
    pool,       \* clients checked out of the pg Pool
    req         \* per request slot: the request a handler of index.js is serving

retailVars == <<retail, retail0, orders, sess, lock, nextId, guard, resp,
                inventory, env, built, conn, test>>
apiVars == <<products, order_items, inventory_movements, nextPid, pool, req>>
vars == <<retail, retail0, orders, sess, lock, nextId, guard, resp, inventory,
          env, built, conn, test,
          products, order_items, inventory_movements, nextPid, pool, req>>

------------------------------------------------------------------------------
(* Bounds *)

MaxOrders == 3          \* INSERT INTO orders statements issued in a run
MaxRetailRows == 2      \* rows the retail table ever holds
MaxLevel == 5           \* highest stock level an adjustment is followed to

Sessions == {"s1", "s2"}
NoSession == "none"
StockCodes == {"A", "B"}
InitStock == {3, 20}
OrderQty == {2, 5}

------------------------------------------------------------------------------
(* SQL values *)

Null == <<>>
V(n) == <<n>>
IsNull(x) == x = Null

\* a - b in SQL: NULL when either operand is NULL
SqlSub(a, b) == IF IsNull(a) \/ IsNull(b) THEN Null ELSE V(a[1] - b[1])

\* "IF x < 0 THEN" in PL/pgSQL: taken only when the comparison is TRUE,
\* so a NULL operand does not take the branch
SqlIfNegative(x) == ~IsNull(x) /\ x[1] < 0

SqlValues == {Null} \cup {V(n) : n \in -1..2}

Min(S) == CHOOSE x \in S : \A y \in S : x <= y

RECURSIVE SumQty(_, _)
\* SUM(quantity) over the orders rows that reference product pid
SumQty(os, pid) ==
    IF os = <<>> THEN 0
    ELSE (IF Head(os).product_id = pid THEN Head(os).quantity ELSE 0)
         + SumQty(Tail(os), pid)

------------------------------------------------------------------------------
(* JavaScript strings and their numeric conversions.  A string is a sequence *)
(* of one-character strings over Chars.                                      *)

Chars == {"1", "2", "A", ".", " "}
DigitChars == <<"0", "1", "2", "3", "4", "5", "6", "7", "8", "9">>
IsDigit(c) == \E i \in 1..10 : DigitChars[i] = c
DigitVal(c) == (CHOOSE i \in 1..10 : DigitChars[i] = c) - 1

RECURSIVE TrimLeft(_)
TrimLeft(s) == IF s # <<>> /\ Head(s) = " " THEN TrimLeft(Tail(s)) ELSE s

RECURSIVE TrimRight(_)
TrimRight(s) ==
    IF s # <<>> /\ s[Len(s)] = " " THEN TrimRight(SubSeq(s, 1, Len(s) - 1)) ELSE s

Trim(s) == TrimRight(TrimLeft(s))

AllDigits(s) == \A i \in 1..Len(s) : IsDigit(s[i])

\* StrDecimalLiteral without sign and exponent: d+, d+., .d+, d+.d+
IsDecimalLiteral(t) ==
    \/ t # <<>> /\ AllDigits(t)
    \/ \E k \in 1..Len(t) :
          /\ t[k] = "."
          /\ AllDigits(SubSeq(t, 1, k - 1))
          /\ AllDigits(SubSeq(t, k + 1, Len(t)))
          /\ Len(t) > 1

\* isNaN(s) for a string s: Number(s) is NaN.  Number("") and Number("  ") are 0.
isNaN_str(s) == LET t == Trim(s) IN t # <<>> /\ ~IsDecimalLiteral(t)

\* isNaN(parseFloat(s)): parseFloat reads the longest numeric prefix after
\* leading white space
parseFloat_isNaN(s) ==
    LET t == TrimLeft(s)
    IN ~(\/ t # <<>> /\ IsDigit(t[1])
         \/ Len(t) >= 2 /\ t[1] = "." /\ IsDigit(t[2]))

RECURSIVE DigitsValue(_, _)
\* the value of the leading run of digits of t, continuing from acc
DigitsValue(t, acc) ==
    IF t # <<>> /\ IsDigit(Head(t))
    THEN DigitsValue(Tail(t), 10 * acc + DigitVal(Head(t)))
    ELSE acc

\* parseInt(s): the leading run of digits after white space, NaN if none
parseInt(s) ==
    LET t == TrimLeft(s)
    IN IF t # <<>> /\ IsDigit(t[1])
       THEN [n |-> DigitsValue(t, 0), nan |-> FALSE]
       ELSE [n |-> 0, nan |-> TRUE]

\* PostgreSQL's input of a text parameter for an integer column: digits with
\* optional surrounding white space, anything else is error 22P02
PgInt(s) ==
    LET t == Trim(s)
    IN IF t # <<>> /\ AllDigits(t)
       THEN [n |-> DigitsValue(t, 0), err |-> FALSE]
       ELSE [n |-> 0, err |-> TRUE]

------------------------------------------------------------------------------
(* enforce_positive_values(): BEFORE INSERT OR UPDATE ON retail *)

\* (mutant) the guard also rejects zero
enforce_positive_values_strict(new) ==
    \/ ~IsNull(new.quantity) /\ new.quantity[1] <= 0
    \/ ~IsNull(new.unit_price) /\ new.unit_price[1] <= 0

\* (mutant) the guard checks the price only
enforce_positive_values_price(new) == SqlIfNegative(new.unit_price)

\* TRUE when the trigger function raises for the row NEW
enforce_positive_values(new) ==
    \/ SqlIfNegative(new.quantity)
    \/ SqlIfNegative(new.unit_price)

\* the last row the trigger was fired for: the statement and NEW
NoGuard == [quantity |-> Null, unit_price |-> Null, fired |-> FALSE,
            op |-> "none", id |-> 0]

GuardEvent(op, new) ==
    [quantity |-> new.quantity, unit_price |-> new.unit_price, fired |-> TRUE,
     op |-> op, id |-> 0]

------------------------------------------------------------------------------
(* update_stock(): AFTER INSERT ON orders FOR EACH ROW *)

NoOrder == [product_id |-> "-", quantity |-> 0]
EmptyTable == [id \in {} |-> Null]
IdleSess == [new |-> NoOrder, pc |-> "idle", snap |-> EmptyTable, todo |-> {},
             writes |-> EmptyTable]

InFlight == Cardinality({s \in Sessions : sess[s].pc # "idle"})

\* WHERE stockcode = NEW.product_id, evaluated on one table version
Matching(table, new) ==
    {id \in DOMAIN table : table[id].stockcode = new.product_id}

\* (mutant) the UPDATE computes from its statement snapshot
RowForUpdate_snapshot(s, id) == sess[s].snap[id]

\* The row version an UPDATE works on once it holds the row lock: under READ
\* COMMITTED it is the latest committed version, not the statement snapshot.
RowForUpdate(s, id) == retail[id]

\* (mutant) the trigger adds instead of subtracting
update_stock_row_add(cur, new) ==
    [cur EXCEPT !.quantity = SqlSub(cur.quantity, V(0 - new.quantity))]

\* SET quantity = quantity - NEW.quantity
update_stock_row(cur, new) ==
    [cur EXCEPT !.quantity = SqlSub(cur.quantity, V(new.quantity))]

\* INSERT INTO orders (product_id, quantity) VALUES (pid, q): the row is
\* inserted in the session's transaction and trg_update_stock fires; its
\* UPDATE takes its snapshot of retail.
InsertOrder(s, pid, q) ==
    /\ sess[s].pc = "idle"
    /\ Len(orders) + InFlight < MaxOrders
    /\ LET new == [product_id |-> pid, quantity |-> q]
       IN sess' = [sess EXCEPT ![s] =
                     [new |-> new, pc |-> "update", snap |-> retail,
                      todo |-> Matching(retail, new), writes |-> EmptyTable]]
    /\ guard' = NoGuard
    /\ UNCHANGED <<retail, retail0, orders, lock, nextId, resp>>
    /\ UNCHANGED <<inventory, env, built, conn, test>>
    /\ UNCHANGED apiVars

\* The trigger's UPDATE reaches its next row (in scan order): it waits for the
\* row lock, re-reads the row, fires trg_enforce_positive_values on the new
\* version and either keeps the lock and the new version, or the exception
\* aborts the whole transaction.
TrgUpdateRow(s) ==
    /\ sess[s].pc = "update"
    /\ sess[s].todo # {}
    /\ LET id == Min(sess[s].todo)
           new == sess[s].new
       IN /\ lock[id] = NoSession
          /\ IF id \notin DOMAIN retail \/ RowForUpdate(s, id).stockcode # new.product_id
             THEN \* the row was deleted or re-keyed meanwhile: skipped
                  /\ sess' = [sess EXCEPT ![s].todo = @ \ {id}]
                  /\ guard' = NoGuard
                  /\ UNCHANGED lock
             ELSE LET row == update_stock_row(RowForUpdate(s, id), new)
                  IN /\ guard' = [GuardEvent("trigger", row) EXCEPT !.id = id]
                     /\ IF enforce_positive_values(row)
                        THEN /\ sess' = [sess EXCEPT ![s] = IdleSess]
                             /\ lock' = [i \in DOMAIN lock |->
                                           IF lock[i] = s THEN NoSession ELSE lock[i]]
                        ELSE /\ sess' = [sess EXCEPT ![s].todo = @ \ {id},
                                                     ![s].writes = (id :> row) @@ @]
                             /\ lock' = [lock EXCEPT ![id] = s]
    /\ UNCHANGED <<retail, retail0, orders, nextId, resp>>
    /\ UNCHANGED <<inventory, env, built, conn, test>>
    /\ UNCHANGED apiVars

\* The statement is complete and its (autocommit) transaction commits: the
\* order row and every updated retail row become visible together.
Commit(s) ==
    /\ sess[s].pc = "update"
    /\ sess[s].todo = {}
    /\ retail' = [id \in DOMAIN retail |->
                    IF id \in DOMAIN sess[s].writes THEN sess[s].writes[id]
                    ELSE retail[id]]
    /\ orders' = Append(orders, sess[s].new)
    /\ lock' = [i \in DOMAIN lock |-> IF lock[i] = s THEN NoSession ELSE lock[i]]
    /\ sess' = [sess EXCEPT ![s] = IdleSess]
    /\ guard' = NoGuard
    /\ UNCHANGED <<retail0, nextId, resp>>
    /\ UNCHANGED <<inventory, env, built, conn, test>>
    /\ UNCHANGED apiVars

------------------------------------------------------------------------------
(* routes/retail.js: POST /, PUT /:id, DELETE /:id.  Each is one statement   *)
(* through db.query, committed on its own.                                    *)

RetailBody(q, p) == [quantity |-> q, unit_price |-> p, stock_code |-> "A"]
RetailBodies == {RetailBody(V(2), V(1)), RetailBody(V(0), V(0)),
                 RetailBody(V(-1), V(1)), RetailBody(V(2), V(-1)),
                 RetailBody(Null, V(1))}

RetailIdParams == {<<"1">>, <<"2">>, <<"A">>, <<"1", ".">>}

\* the columns of the INSERT or UPDATE taken from the request body
RetailRowOf(body) ==
    [quantity |-> body.quantity, unit_price |-> body.unit_price,
     stockcode |-> body.stock_code]

\* router.post('/'): INSERT INTO retail ... RETURNING *
RetailPost(body) ==
    /\ nextId <= MaxRetailRows
    /\ LET row == RetailRowOf(body)
       IN /\ guard' = [GuardEvent("insert", row) EXCEPT !.id = nextId]
          /\ IF enforce_positive_values(row)
             THEN /\ resp' = [status |-> 500]
                  /\ UNCHANGED retail
             ELSE /\ resp' = [status |-> 201]
                  /\ retail' = (nextId :> row) @@ retail
    /\ nextId' = nextId + 1
    /\ UNCHANGED <<retail0, orders, sess, lock>>
    /\ UNCHANGED <<inventory, env, built, conn, test>>
    /\ UNCHANGED apiVars

\* router.put('/:id'): UPDATE retail SET ... WHERE id=$9 RETURNING *
RetailPut(idp, body) ==
    /\ IF isNaN_str(idp)
       THEN /\ resp' = [status |-> 400]
            /\ guard' = NoGuard
            /\ UNCHANGED retail
       ELSE IF PgInt(idp).err
       THEN /\ resp' = [status |-> 500]
            /\ guard' = NoGuard
            /\ UNCHANGED retail
       ELSE LET id == PgInt(idp).n
                row == RetailRowOf(body)
            IN IF id \notin DOMAIN retail
               THEN /\ resp' = [status |-> 404]
                    /\ guard' = NoGuard
                    /\ UNCHANGED retail
               ELSE /\ lock[id] = NoSession
                    /\ guard' = [GuardEvent("update", row) EXCEPT !.id = id]
                    /\ IF enforce_positive_values(row)
                       THEN /\ resp' = [status |-> 500]
                            /\ UNCHANGED retail
                       ELSE /\ resp' = [status |-> 200]
                            /\ retail' = [retail EXCEPT ![id] = row]
    /\ UNCHANGED <<retail0, orders, sess, lock, nextId>>
    /\ UNCHANGED <<inventory, env, built, conn, test>>
    /\ UNCHANGED apiVars

\* router.delete('/:id'): DELETE FROM retail WHERE id = $1 RETURNING id
RetailDelete(idp) ==
    /\ IF isNaN_str(idp)
       THEN /\ resp' = [status |-> 400]
            /\ UNCHANGED retail
       ELSE IF PgInt(idp).err
       THEN /\ resp' = [status |-> 500]
            /\ UNCHANGED retail
       ELSE LET id == PgInt(idp).n
            IN IF id \notin DOMAIN retail
               THEN /\ resp' = [status |-> 404]
                    /\ UNCHANGED retail
               ELSE /\ lock[id] = NoSession
                    /\ resp' = [status |-> 204]
                    /\ retail' = [i \in DOMAIN retail \ {id} |-> retail[i]]
    /\ guard' = NoGuard
    /\ UNCHANGED <<retail0, orders, sess, lock, nextId>>
    /\ UNCHANGED <<inventory, env, built, conn, test>>
    /\ UNCHANGED apiVars

------------------------------------------------------------------------------
(* routes/retail.js: POST /performance/adjust-inventory.  The SQL function   *)
(* adjust_inventory is called by the route and defined outside these files.  *)

InitInventory == "A" :> [current_stock |-> 3, available_stock |-> 3]

\* the request bodies: stock_code ("" when missing) and adjustment (Null when
\* undefined)
AdjustCodes == {"A", "B", ""}
Adjustments == {Null, V(1), V(-1)}

\* SELECT adjust_inventory(stock_code, adjustment, reason): the stock levels
\* of the row of stock_code move by adjustment
adjust_inventory(inv, code, adj) ==
    IF code \in DOMAIN inv
    THEN [inv EXCEPT ![code] =
            [current_stock |-> @.current_stock + adj,
             available_stock |-> @.available_stock + adj]]
    ELSE inv

\* router.post('/performance/adjust-inventory')
AdjustInventory(code, adj) ==
    /\ IF code = "" \/ IsNull(adj)
       THEN /\ resp' = [status |-> 400]
            /\ UNCHANGED inventory
       ELSE /\ inventory' = adjust_inventory(inventory, code, adj[1])
            /\ \A c \in DOMAIN inventory' :
                  inventory'[c].current_stock \in 0..MaxLevel
            /\ resp' = [status |-> 200]
    /\ guard' = NoGuard
    /\ UNCHANGED <<retail, retail0, orders, sess, lock, nextId, env, built,
                   conn, test>>
    /\ UNCHANGED apiVars

\* the same route when db.query rejects with an error whose message is msg:
\* catch answers 500 with { error: err.message }
AdjustInventoryFails(code, adj, msg) ==
    /\ code # "" /\ ~IsNull(adj)
    /\ resp' = [status |-> 500, error |-> msg]
    /\ guard' = NoGuard
    /\ UNCHANGED <<retail, retail0, orders, sess, lock, nextId, inventory, env,
                   built, conn, test>>
    /\ UNCHANGED apiVars

------------------------------------------------------------------------------
(* index.js: JavaScript values of request bodies.  A value is              *)
(* [t: its typeof (or "null"), n: its number, s: its string].              *)

JsUndef == [n |-> 0, s |-> <<>>, t |-> "undefined"]
JsNull == [n |-> 0, s |-> <<>>, t |-> "null"]
JsNum(n) == [n |-> n, s |-> <<>>, t |-> "number"]
JsStr(s) == [n |-> 0, s |-> s, t |-> "string"]
JsBool(b) == [n |-> IF b THEN 1 ELSE 0, s |-> <<>>, t |-> "boolean"]
\* an array of strings, as a repeated query parameter is parsed
JsArr == [n |-> 0, s |-> <<>>, t |-> "array"]

\* !v is false
Truthy(v) ==
    CASE v.t = "undefined" -> FALSE
      [] v.t = "null" -> FALSE
      [] v.t = "number" -> v.n # 0
      [] v.t = "boolean" -> v.n = 1
      [] v.t = "string" -> v.s # <<>>

\* The sign of Number(v): "nan", "neg", "zero" or "pos"
SignOf(n) == IF n < 0 THEN "neg" ELSE IF n = 0 THEN "zero" ELSE "pos"
NumberSign(v) ==
    CASE v.t = "undefined" -> "nan"
      [] v.t = "null" -> "zero"
      [] v.t = "number" -> SignOf(v.n)
      [] v.t = "boolean" -> SignOf(v.n)
      [] v.t = "string" ->
            IF isNaN_str(v.s) THEN "nan"
            ELSE IF \E i \in 1..Len(v.s) : IsDigit(v.s[i]) /\ v.s[i] # "0"
                 THEN "pos" ELSE "zero"

MaxStockCodeLen == 20

\* validateProduct: the status it answers, or 0 when it calls next()
validateProduct(body) ==
    IF ~Truthy(body.stock_code) \/ ~Truthy(body.description) THEN 400
    ELSE IF body.stock_code.t # "string" \/ Len(body.stock_code.s) > MaxStockCodeLen
         THEN 400
    ELSE IF body.unit_price # JsUndef
            /\ (NumberSign(body.unit_price) = "nan"
                \/ NumberSign(body.unit_price) \in {"neg", "zero"}) THEN 400
    ELSE 0

\* error.message of the errors the database driver throws
DbMessages == {"relation \"products\" does not exist",
               "Connection terminated unexpectedly"}
Envs == {"development", "production", "unset"}

\* (mutant) every database error is answered 500
handleDatabaseError_all500(code) == 500

\* handleDatabaseError: the status for a PostgreSQL error code
handleDatabaseError(code) ==
    CASE code = "23505" -> 409
      [] code = "23503" -> 400
      [] code = "23514" -> 400
      [] OTHER -> 500

------------------------------------------------------------------------------
(* node-postgres parameters: a JavaScript value bound to a column *)

PgOk(v) == [err |-> FALSE, v |-> v]
PgErr == [err |-> TRUE, v |-> Null]

\* a parameter for an integer or numeric column
PgNumber(v) ==
    CASE v.t \in {"undefined", "null"} -> PgOk(Null)
      [] v.t = "number" -> PgOk(V(v.n))
      [] v.t = "string" -> IF PgInt(v.s).err THEN PgErr ELSE PgOk(V(PgInt(v.s).n))
      [] v.t = "boolean" -> PgErr     \* 'true' is no number: 22P02

RECURSIVE NatString(_)
\* String(n) of a natural number
NatString(n) ==
    LET d == CASE n % 10 = 0 -> "0" [] n % 10 = 1 -> "1" [] n % 10 = 2 -> "2"
               [] n % 10 = 3 -> "3" [] n % 10 = 4 -> "4" [] n % 10 = 5 -> "5"
               [] n % 10 = 6 -> "6" [] n % 10 = 7 -> "7" [] n % 10 = 8 -> "8"
               [] OTHER -> "9"
    IN IF n < 10 THEN <<d>> ELSE Append(NatString(n \div 10), d)

\* a parameter for a text column: prepareValue sends String(v)
PgText(v) ==
    CASE v.t \in {"undefined", "null"} -> PgOk(Null)
      [] v.t = "string" -> PgOk(<<v.s>>)
      [] v.t = "number" ->
            PgOk(<<IF v.n < 0 THEN <<"-">> \o NatString(-v.n) ELSE NatString(v.n)>>)
      [] v.t = "boolean" ->
            PgOk(<<IF v.n = 1 THEN <<"t", "r", "u", "e">>
                   ELSE <<"f", "a", "l", "s", "e">>>>)

\* a parameter for a boolean column; of the strings over Chars the boolean
\* input function reads only '1'
PgBool(v) ==
    CASE v.t \in {"undefined", "null"} -> PgOk(Null)
      [] v.t = "boolean" -> PgOk(<<v.n = 1>>)
      [] v.t = "number" -> IF v.n \in {0, 1} THEN PgOk(<<v.n = 1>>) ELSE PgErr
      [] v.t = "string" -> IF Trim(v.s) = <<"1">> THEN PgOk(<<TRUE>>) ELSE PgErr

NumberCols == {"category_id", "unit_price", "stock_quantity", "reorder_level", "weight"}
TextCols == {"stock_code", "description", "supplier_info", "dimensions"}
MutableCols == NumberCols \cup TextCols \cup {"is_active"}

PgParam(col, v) ==
    IF col \in NumberCols THEN PgNumber(v)
    ELSE IF col \in TextCols THEN PgText(v)
    ELSE PgBool(v)

------------------------------------------------------------------------------
(* index.js: the products API *)

PoolMax == 20
MaxProducts == 2        \* rows the products table ever holds
MaxIdLen == 2           \* characters of a :id parameter

Slots == {"r1", "r2"}

RECURSIVE StringsUpTo(_)
\* the non-empty strings over Chars of at most n characters
StringsUpTo(n) ==
    IF n = 0 THEN {}
    ELSE LET shorter == StringsUpTo(n - 1)
         IN {<<c>> : c \in Chars} \cup shorter
              \cup {Append(t, c) : t \in shorter, c \in Chars}

\* the :id parameters tried: every short string, and a decimal fraction
IdParams == StringsUpTo(MaxIdLen) \cup {<<"1", ".", "2">>}
ProductIds == 1..MaxProducts

NoRow == [c \in MutableCols |-> Null]
NoData == [pid |-> 0, row |-> NoRow]
NoBody == [c \in MutableCols |-> JsUndef]
\* req.query of GET /api/products; a column name is one symbol of its string
NoQuery == [page |-> JsUndef, limit |-> JsUndef, sort_by |-> JsUndef,
            sort_order |-> JsUndef]
IdleReq == [pid |-> 0, op |-> "none", id |-> <<>>, pc |-> "idle",
            body |-> NoBody, status |-> 0, error |-> "none",
            query |-> NoQuery, data |-> NoData, analytics |-> 0,
            rows |-> <<>>, total |-> 0, total_pages |-> 0, message |-> ""]

ApiIdle ==
    /\ products = [pid \in {} |-> NoRow]
    /\ order_items = [pid \in ProductIds |-> 0]
    /\ inventory_movements = [pid \in ProductIds |-> 0]
    /\ nextPid = 1
    /\ pool = 0
    /\ req = [r \in Slots |-> IdleReq]

\* const isNumeric = !isNaN(id) && !isNaN(parseFloat(id))
IsNumericId(id) == ~isNaN_str(id) /\ ~parseFloat_isNaN(id)

\* SELECT ... FROM products WHERE ${searchField} = $1 with searchValue bound:
\* the product_ids selected; parseInt's NaN is no integer (22P02)
SelectProduct(id) ==
    IF IsNumericId(id)
    THEN IF parseInt(id).nan THEN [err |-> TRUE, rows |-> {}]
         ELSE [err |-> FALSE,
               rows |-> {pid \in DOMAIN products : pid = parseInt(id).n}]
    ELSE [err |-> FALSE,
          rows |-> {pid \in DOMAIN products : products[pid].stock_code = <<id>>}]

First(rows) == CHOOSE pid \in rows : \A other \in rows : pid <= other

\* the response is sent and, in finally, the client released
Respond(r, status, data) ==
    /\ req' = [req EXCEPT ![r].pc = "done", ![r].status = status, ![r].data = data]
    /\ pool' = pool - 1

\* the message property of handleDatabaseError's 500 body for an error whose
\* message is msg
errorMessage(nodeEnv, msg) ==
    IF nodeEnv = "development" THEN msg ELSE "Database operation failed"

\* catch (error) { handleDatabaseError(error, res) }, with the code of the
\* error caught and any message, and, in finally, the client released
Fail(r, code) ==
    /\ \E msg \in DbMessages :
          req' = [req EXCEPT ![r].pc = "done", ![r].error = code,
                            ![r].status = handleDatabaseError(code),
                            ![r].message =
                                IF handleDatabaseError(code) = 500
                                THEN errorMessage(env, msg) ELSE ""]
    /\ pool' = pool - 1

\* A request arrives: validateProduct runs for POST and PUT, then the handler
\* calls pool.connect().
Request(r, op, id, body) ==
    /\ req[r].pc \in {"idle", "done"}
    /\ LET fresh == [IdleReq EXCEPT !.op = op, !.id = id, !.body = body]
       IN IF op \in {"POST", "PUT"} /\ validateProduct(body) # 0
          THEN req' = [req EXCEPT ![r] = [fresh EXCEPT !.pc = "done",
                                            !.status = validateProduct(body)]]
          ELSE req' = [req EXCEPT ![r] = [fresh EXCEPT !.pc = "connect"]]
    /\ UNCHANGED <<products, order_items, inventory_movements, nextPid, pool>>
    /\ UNCHANGED retailVars

\* pool.connect() resolves with a client
Connect(r) ==
    /\ req[r].pc = "connect"
    /\ pool < PoolMax
    /\ pool' = pool + 1
    /\ req' = [req EXCEPT ![r].pc =
                 CASE req[r].op = "GET" -> "select"
                   [] req[r].op = "LIST" -> "page"
                   [] req[r].op = "HEALTH" -> "ping"
                   [] req[r].op = "SUMMARY" -> "summary"
                   [] req[r].op = "POST" -> "insert"
                   [] req[r].op = "PUT" -> "check"
                   [] req[r].op = "DELETE" -> "check"]
    /\ UNCHANGED <<products, order_items, inventory_movements, nextPid>>
    /\ UNCHANGED retailVars

\* app.get('/api/products/:id'): the product query
GetSelect(r) ==
    /\ req[r].op = "GET" /\ req[r].pc = "select"
    /\ LET sel == SelectProduct(req[r].id)
       IN IF sel.err THEN Fail(r, "22P02")
          ELSE IF sel.rows = {} THEN Respond(r, 404, NoData)
          ELSE /\ req' = [req EXCEPT ![r].pc = "analytics",
                            ![r].pid = First(sel.rows),
                            ![r].data = [pid |-> First(sel.rows),
                                         row |-> products[First(sel.rows)]]]
               /\ UNCHANGED pool
    /\ UNCHANGED <<products, order_items, inventory_movements, nextPid>>
    /\ UNCHANGED retailVars

\* app.get('/api/products/:id'): the analytics query and the response
GetAnalytics(r) ==
    /\ req[r].op = "GET" /\ req[r].pc = "analytics"
    /\ req' = [req EXCEPT ![r].pc = "done", ![r].status = 200,
                 ![r].analytics = IF req[r].pid \in DOMAIN order_items
                                  THEN order_items[req[r].pid] ELSE 0]
    /\ pool' = pool - 1
    /\ UNCHANGED <<products, order_items, inventory_movements, nextPid>>
    /\ UNCHANGED retailVars

\* the body with the defaults of the destructuring in app.post
PostDefaults(body) ==
    [body EXCEPT
        !.category_id = IF @ = JsUndef THEN JsNull ELSE @,
        !.stock_quantity = IF @ = JsUndef THEN JsNum(0) ELSE @,
        !.reorder_level = IF @ = JsUndef THEN JsNum(10) ELSE @,
        !.supplier_info = IF @ = JsUndef THEN JsNull ELSE @,
        !.is_active = IF @ = JsUndef THEN JsBool(TRUE) ELSE @,
        !.weight = IF @ = JsUndef THEN JsNull ELSE @,
        !.dimensions = IF @ = JsUndef THEN JsNull ELSE @]

ParamError(body) == \E c \in MutableCols : PgParam(c, body[c]).err

\* (mutant) a partial patch: absent fields keep the stored value
RowOfBody_patch(body, old) ==
    [c \in MutableCols |->
        IF body[c] = JsUndef THEN old[c] ELSE PgParam(c, body[c]).v]

\* the ten columns of VALUES ($1..$10), or of SET ... = $1..$10 over the row old
RowOfBody(body, old) == [c \in MutableCols |-> PgParam(c, body[c]).v]

\* (mutant) no UNIQUE constraint
UniqueViolation_off(row, pid) == FALSE

\* the UNIQUE constraint on stock_code would be violated by row at pid
UniqueViolation(row, pid) ==
    \E other \in DOMAIN products \ {pid} :
        products[other].stock_code = row.stock_code

\* app.post('/api/products'): INSERT INTO products ... RETURNING *
PostInsert(r) ==
    /\ req[r].op = "POST" /\ req[r].pc = "insert"
    /\ nextPid <= MaxProducts
    /\ LET body == PostDefaults(req[r].body)
           row == RowOfBody(body, NoRow)
       IN IF ParamError(body)
          THEN /\ Fail(r, "22P02")
               /\ UNCHANGED <<products, order_items, inventory_movements, nextPid>>
          ELSE IF UniqueViolation(row, 0)
          THEN /\ Fail(r, "23505")
               /\ UNCHANGED <<products, order_items, inventory_movements, nextPid>>
          ELSE /\ products' = (nextPid :> row) @@ products
               /\ nextPid' = nextPid + 1
               /\ UNCHANGED <<order_items, inventory_movements>>
               /\ Respond(r, 201, [pid |-> nextPid, row |-> row])
    /\ UNCHANGED retailVars

\* app.put('/api/products/:id'): the existence check
PutCheck(r) ==
    /\ req[r].op = "PUT" /\ req[r].pc = "check"
    /\ LET sel == SelectProduct(req[r].id)
       IN IF sel.err THEN Fail(r, "22P02")
          ELSE IF sel.rows = {} THEN Respond(r, 404, NoData)
          ELSE /\ req' = [req EXCEPT ![r].pc = "update",
                                     ![r].pid = First(sel.rows)]
               /\ UNCHANGED pool
    /\ UNCHANGED <<products, order_items, inventory_movements, nextPid>>
    /\ UNCHANGED retailVars

\* app.put('/api/products/:id'): UPDATE products SET ... WHERE product_id = $11
\* RETURNING *; data is result.rows[0]
PutUpdate(r) ==
    /\ req[r].op = "PUT" /\ req[r].pc = "update"
    /\ LET pid == req[r].pid
           body == req[r].body
       IN IF ParamError(body)
          THEN /\ Fail(r, "22P02")
               /\ UNCHANGED products
          ELSE IF pid \notin DOMAIN products
          THEN /\ Respond(r, 200, NoData)
               /\ UNCHANGED products
          ELSE LET row == RowOfBody(body, products[pid])
               IN IF UniqueViolation(row, pid)
                  THEN /\ Fail(r, "23505")
                       /\ UNCHANGED products
                  ELSE /\ products' = [products EXCEPT ![pid] = row]
                       /\ Respond(r, 200, [pid |-> pid, row |-> row])
    /\ UNCHANGED <<order_items, inventory_movements, nextPid>>
    /\ UNCHANGED retailVars

\* (mutant) the check counts order_items only
RelatedRecords_items(m, n) == IF m > 0 THEN m * (IF n > 0 THEN n ELSE 1) ELSE 0

\* totalRelatedRecords of the check query for a product with m order_items
\* and n inventory_movements rows: COUNT(oi.id) + COUNT(im.id) over the two
\* LEFT JOINs
RelatedRecords(m, n) ==
    (IF m > 0 THEN m * (IF n > 0 THEN n ELSE 1) ELSE 0)
    + (IF n > 0 THEN n * (IF m > 0 THEN m ELSE 1) ELSE 0)

\* app.delete('/api/products/:id'): the check query
DeleteCheck(r) ==
    /\ req[r].op = "DELETE" /\ req[r].pc = "check"
    /\ LET sel == SelectProduct(req[r].id)
       IN IF sel.err THEN Fail(r, "22P02")
          ELSE IF sel.rows = {} THEN Respond(r, 404, NoData)
          ELSE LET pid == First(sel.rows)
               IN IF RelatedRecords(order_items[pid], inventory_movements[pid]) > 0
                  THEN /\ req' = [req EXCEPT ![r].pc = "done", ![r].pid = pid,
                                             ![r].status = 409]
                       /\ pool' = pool - 1
                  ELSE /\ req' = [req EXCEPT ![r].pc = "delete", ![r].pid = pid]
                       /\ UNCHANGED pool
    /\ UNCHANGED <<products, order_items, inventory_movements, nextPid>>
    /\ UNCHANGED retailVars

\* app.delete('/api/products/:id'): DELETE FROM products WHERE product_id = $1
\* RETURNING *; deleted_product is result.rows[0]
DeleteExec(r) ==
    /\ req[r].op = "DELETE" /\ req[r].pc = "delete"
    /\ LET pid == req[r].pid
       IN IF pid \in DOMAIN products
          THEN /\ products' = [p \in DOMAIN products \ {pid} |-> products[p]]
               /\ Respond(r, 200, [pid |-> pid, row |-> products[pid]])
          ELSE /\ Respond(r, 200, NoData)
               /\ UNCHANGED products
    /\ UNCHANGED <<order_items, inventory_movements, nextPid>>
    /\ UNCHANGED retailVars

ProductCodes == {<<"A">>, <<"2">>, <<"1", "A">>}
DepCounts == {0, 1}

\* the DELETE statement when a row of order_items or inventory_movements
\* references the product and a foreign key forbids it: error 23503
DeleteRefused(r) ==
    /\ req[r].op = "DELETE" /\ req[r].pc = "delete"
    /\ req[r].pid \in DOMAIN products
    /\ order_items[req[r].pid] + inventory_movements[req[r].pid] > 0
    /\ Fail(r, "23503")
    /\ UNCHANGED <<products, order_items, inventory_movements, nextPid>>
    /\ UNCHANGED retailVars

\* another client of the database inserts a row of order_items (oi = TRUE) or
\* of inventory_movements that references product pid
InsertDependent(pid, oi) ==
    /\ pid \in DOMAIN products
    /\ IF oi THEN /\ order_items[pid] + 1 \in DepCounts
                  /\ order_items' = [order_items EXCEPT ![pid] = @ + 1]
                  /\ UNCHANGED inventory_movements
             ELSE /\ inventory_movements[pid] + 1 \in DepCounts
                  /\ inventory_movements' = [inventory_movements EXCEPT ![pid] = @ + 1]
                  /\ UNCHANGED order_items
    /\ UNCHANGED <<products, nextPid, pool, req>>
    /\ UNCHANGED retailVars

------------------------------------------------------------------------------
(* index.js: GET /api/products.  The search, category_id and is_active       *)
(* filters are left at their defaults, so whereClause is empty.              *)

\* Number(v) of a number or a string of digits
NumberOf(v) == IF v.t = "number" THEN v.n ELSE DigitsValue(Trim(v.s), 0)

\* page = 1, limit = 10, sort_by = 'stock_code', sort_order = 'ASC'
QueryDefaults(q) ==
    [page |-> IF q.page = JsUndef THEN JsNum(1) ELSE q.page,
     limit |-> IF q.limit = JsUndef THEN JsNum(10) ELSE q.limit,
     sort_by |-> IF q.sort_by = JsUndef THEN JsStr(<<"stock_code">>) ELSE q.sort_by,
     sort_order |-> IF q.sort_order = JsUndef THEN JsStr(<<"A", "S", "C">>)
                    ELSE q.sort_order]

validSortColumns ==
    {JsStr(<<c>>) : c \in {"product_id", "stock_code", "description", "unit_price",
                          "stock_quantity", "created_at", "updated_at"}}
validSortOrders == {<<"A", "S", "C">>, <<"D", "E", "S", "C">>}

\* toUpperCase of one character
UpperChar(c) ==
    CASE c = "a" -> "A" [] c = "s" -> "S" [] c = "c" -> "C"
      [] c = "d" -> "D" [] c = "e" -> "E" [] OTHER -> c
toUpperCase(s) == [i \in 1..Len(s) |-> UpperChar(s[i])]

\* (mutant) an unknown sort_by falls back to product_id
sortColumn_pid(sort_by) ==
    IF sort_by \in validSortColumns THEN sort_by.s[1] ELSE "product_id"

\* validSortColumns.includes(sort_by) ? sort_by : 'stock_code'
sortColumn(sort_by) ==
    IF sort_by \in validSortColumns THEN sort_by.s[1] ELSE "stock_code"

\* sort_order.toUpperCase is not a function unless sort_order is a string
sortOrderThrows(sort_order) == sort_order.t # "string"

\* validSortOrders.includes(sort_order.toUpperCase()) ? ... : 'ASC'
sortOrderValue(sort_order) ==
    IF toUpperCase(sort_order.s) \in validSortOrders
    THEN toUpperCase(sort_order.s) ELSE <<"A", "S", "C">>

\* the rank of a character in the collation: digits before letters
CharRank(c) ==
    CASE c = " " -> 0 [] c = "." -> 1 [] IsDigit(c) -> 2 + DigitVal(c) [] OTHER -> 12

RECURSIVE TextLess(_, _)
\* a < b for two text values
TextLess(a, b) ==
    IF b = <<>> THEN FALSE
    ELSE IF a = <<>> THEN TRUE
    ELSE IF CharRank(a[1]) # CharRank(b[1]) THEN CharRank(a[1]) < CharRank(b[1])
    ELSE TextLess(Tail(a), Tail(b))

\* row p sorts before row q under ORDER BY col ASC
RowLess(p, q, col) ==
    IF col = "stock_code"
    THEN TextLess(products[p].stock_code[1], products[q].stock_code[1])
    ELSE p < q

RECURSIVE OrderBy(_, _, _)
\* the product_ids of S under ORDER BY col dir
OrderBy(S, col, dir) ==
    IF S = {} THEN <<>>
    ELSE LET m == CHOOSE x \in S : \A y \in S \ {x} :
                     IF dir = <<"D", "E", "S", "C">> THEN RowLess(y, x, col)
                     ELSE RowLess(x, y, col)
         IN <<m>> \o OrderBy(S \ {m}, col, dir)

\* LIMIT limit OFFSET offset of a result
LimitOffset(rows, limit, offset) ==
    SubSeq(rows, offset + 1, IF offset + limit < Len(rows) THEN offset + limit
                             ELSE Len(rows))

\* (mutant) the number of full pages
totalPages_floor(total, limit) == total \div limit

\* Math.ceil(total / limit)
totalPages(total, limit) == (total + limit - 1) \div limit

\* req.query's filters of GET /api/products
NoFilters == [category_id |-> JsUndef, is_active |-> JsUndef,
              search |-> JsUndef]

\* search = '', category_id = null, is_active = null
FilterDefaults(f) ==
    [category_id |-> IF f.category_id = JsUndef THEN JsNull ELSE f.category_id,
     is_active |-> IF f.is_active = JsUndef THEN JsNull ELSE f.is_active,
     search |-> IF f.search = JsUndef THEN JsStr(<<>>) ELSE f.search]

\* SQL text is a sequence of tokens: a piece of literal text, or $ph
Lit(text) == [lit |-> <<text>>, ph |-> 0]
Placeholder(k) == [lit |-> <<"$">>, ph |-> k]

\* the text of one WHERE condition with the placeholder $k
conditionText(cond, k) ==
    CASE cond = "search" ->
            <<Lit("(description ILIKE"), Placeholder(k),
              Lit("OR stock_code ILIKE"), Placeholder(k), Lit(")")>>
      [] cond = "category_id" -> <<Lit("category_id ="), Placeholder(k)>>
      [] cond = "is_active" -> <<Lit("is_active ="), Placeholder(k)>>

\* `%${search}%`
searchPattern(search) == JsStr(<<"%">> \o search.s \o <<"%">>)

\* (mutant) the value is written into the SQL text instead of being bound
pushCondition_inline(b, cond, param) ==
    [whereConditions |-> Append(b.whereConditions,
                                <<Lit(cond), [lit |-> param.s, ph |-> 0]>>),
     paramIndex |-> b.paramIndex,
     queryParams |-> b.queryParams]

\* whereConditions.push(...); queryParams.push(param); paramIndex++
pushCondition(b, cond, param) ==
    [whereConditions |-> Append(b.whereConditions, conditionText(cond, b.paramIndex)),
     paramIndex |-> b.paramIndex + 1,
     queryParams |-> Append(b.queryParams, param)]

\* whereConditions, queryParams and paramIndex after the three filters
whereBuild(f) ==
    LET b0 == [whereConditions |-> <<>>, paramIndex |-> 1,
               queryParams |-> <<>>]
        b1 == IF Truthy(f.search)
              THEN pushCondition(b0, "search", searchPattern(f.search)) ELSE b0
        b2 == IF Truthy(f.category_id)
              THEN pushCondition(b1, "category_id", f.category_id) ELSE b1
        b3 == IF f.is_active # JsNull
              THEN pushCondition(b2, "is_active",
                                 JsBool(f.is_active = JsStr(<<"true">>)))
              ELSE b2
    IN b3

RECURSIVE joinAnd(_)
\* whereConditions.join(' AND ')
joinAnd(conds) ==
    IF conds = <<>> THEN <<>>
    ELSE IF Len(conds) = 1 THEN conds[1]
    ELSE conds[1] \o <<Lit("AND")>> \o joinAnd(Tail(conds))

\* whereConditions.length > 0 ? `WHERE ${...}` : ''
whereClause(conds) ==
    IF Len(conds) > 0 THEN <<Lit("WHERE")>> \o joinAnd(conds) ELSE <<>>

\* (mutant) only the offset is removed
sliceCount_offset(params) == SubSeq(params, 1, Len(params) - 1)

\* queryParams.slice(0, -2)
sliceCount(params) == SubSeq(params, 1, Len(params) - 2)

NoStatements == [query |-> <<>>, queryParams |-> <<>>, sent |-> FALSE,
                 countQuery |-> <<>>, countParams |-> <<>>]

\* query, countQuery and their parameters as the handler hands them to
\* client.query; nothing is sent when sort_order.toUpperCase throws
listStatements(f0, q0) ==
    LET f == FilterDefaults(f0)
        q == QueryDefaults(q0)
        b == whereBuild(f)
        offset == JsNum((NumberOf(q.page) - 1) * NumberOf(q.limit))
        queryParams == b.queryParams \o <<q.limit, offset>>
        query == <<Lit("SELECT product_id, ... FROM products")>>
                 \o whereClause(b.whereConditions)
                 \o <<Lit("ORDER BY"), Lit(sortColumn(q.sort_by)),
                      [lit |-> sortOrderValue(q.sort_order), ph |-> 0],
                      Lit("LIMIT"), Placeholder(b.paramIndex),
                      Lit("OFFSET"), Placeholder(b.paramIndex + 1)>>
        countQuery == <<Lit("SELECT COUNT( * ) as total FROM products")>>
                      \o whereClause(b.whereConditions)
    IN IF sortOrderThrows(q.sort_order) THEN NoStatements
       ELSE [query |-> query, queryParams |-> queryParams, sent |-> TRUE,
             countQuery |-> countQuery,
             countParams |-> sliceCount(queryParams)]

\* the handler of GET /api/products builds its statements for a request with
\* filters f and paging and sorting q; the request before is kept beside it
BuildQuery(f, q) ==
    /\ built' = <<[filters |-> f, request |-> q, out |-> listStatements(f, q)]>>
                \o SubSeq(built, 1, IF Len(built) > 0 THEN 1 ELSE 0)
    /\ UNCHANGED <<retail, retail0, orders, sess, lock, nextId, guard, resp,
                   inventory, env, conn, test>>
    /\ UNCHANGED apiVars

\* GET /api/products arrives and the handler calls pool.connect()
ListRequest(r, q) ==
    /\ req[r].pc \in {"idle", "done"}
    /\ req' = [req EXCEPT ![r] = [IdleReq EXCEPT !.op = "LIST", !.query = q,
                                                 !.pc = "connect"]]
    /\ UNCHANGED <<products, order_items, inventory_movements, nextPid, pool>>
    /\ UNCHANGED retailVars

\* the handler up to the first query of Promise.all: the page of products
ListPage(r) ==
    /\ req[r].op = "LIST" /\ req[r].pc = "page"
    /\ LET q == QueryDefaults(req[r].query)
           limit == NumberOf(q.limit)
           offset == (NumberOf(q.page) - 1) * limit
       IN IF sortOrderThrows(q.sort_order)
          THEN Fail(r, "TypeError")
          ELSE /\ req' = [req EXCEPT ![r].pc = "count",
                            ![r].rows = LimitOffset(
                                OrderBy(DOMAIN products, sortColumn(q.sort_by),
                                        sortOrderValue(q.sort_order)),
                                limit, offset)]
               /\ UNCHANGED pool
    /\ UNCHANGED <<products, order_items, inventory_movements, nextPid>>
    /\ UNCHANGED retailVars

\* the count query, in a snapshot of its own, and the response
ListCount(r) ==
    /\ req[r].op = "LIST" /\ req[r].pc = "count"
    /\ LET total == Cardinality(DOMAIN products)
           limit == NumberOf(QueryDefaults(req[r].query).limit)
       IN /\ req' = [req EXCEPT ![r].pc = "done", ![r].status = 200,
                                ![r].total = total,
                                ![r].total_pages = totalPages(total, limit)]
          /\ pool' = pool - 1
    /\ UNCHANGED <<products, order_items, inventory_movements, nextPid>>
    /\ UNCHANGED retailVars

------------------------------------------------------------------------------
(* index.js: the analytics summary, the health check, and what a handler     *)
(* does when a query or pool.connect() fails                                 *)

\* app.get('/api/products/analytics/summary'): one query, then the response
Summary(r) ==
    /\ req[r].op = "SUMMARY" /\ req[r].pc = "summary"
    /\ Respond(r, 200, NoData)
    /\ UNCHANGED <<products, order_items, inventory_movements, nextPid>>
    /\ UNCHANGED retailVars

\* app.get('/api/health'): SELECT 1, then client.release() and the response;
\* when the query throws, control passes to catch and release is not reached
HealthQuery(r, ok) ==
    /\ req[r].op = "HEALTH" /\ req[r].pc = "ping"
    /\ IF ok THEN Respond(r, 200, NoData)
       ELSE /\ req' = [req EXCEPT ![r].pc = "done", ![r].status = 503]
            /\ UNCHANGED pool
    /\ UNCHANGED <<products, order_items, inventory_movements, nextPid>>
    /\ UNCHANGED retailVars

\* the positions at which a products handler awaits client.query inside try
QueryPcs == {"select", "analytics", "insert", "check", "update", "delete",
             "page", "count", "summary"}

\* the classes of error a query may throw besides those the model derives
\* from its tables: a foreign-key violation, a check-constraint violation
\* (the constraints are in the DDL), a not-null violation, a lost connection
FailureCodes == {"23503", "23514", "23502", "08006"}

\* a query of a products handler throws: catch calls handleDatabaseError and
\* finally releases the client
QueryFails(r, code) ==
    /\ req[r].pc \in QueryPcs
    /\ Fail(r, code)
    /\ UNCHANGED <<products, order_items, inventory_movements, nextPid>>
    /\ UNCHANGED retailVars

\* pool.connect() rejects: no client within connectionTimeoutMillis, or the
\* database cannot be reached.  The health check awaits it inside try and
\* answers 503; every other handler awaits it before try, the rejection of
\* the async handler reaches neither catch nor the error middleware, and no
\* response is written.
ConnectTimeout(r) ==
    /\ req[r].pc = "connect"
    /\ IF req[r].op = "HEALTH"
       THEN req' = [req EXCEPT ![r].pc = "done", ![r].status = 503]
       ELSE req' = [req EXCEPT ![r].pc = "hung"]
    /\ UNCHANGED <<products, order_items, inventory_movements, nextPid, pool>>
    /\ UNCHANGED retailVars

------------------------------------------------------------------------------
(* routes/retail.js: POST /performance/trigger-test.  The module db          *)
(* (require('../db')) is outside these files: db.query(text) runs one        *)
(* statement on a connection of the pool, and the next db.query may run on   *)
(* another.  A connection runs its statements in autocommit unless BEGIN     *)
(* opened a transaction on it.                                               *)

Conns == {"c1", "c2"}

\* tx: "none", "open" after BEGIN, "aborted" after an error inside the
\* transaction; retail and inventory: the rows the open transaction wrote
IdleConn == [retail |-> <<>>, inventory |-> <<>>, tx |-> "none"]

\* before: the committed tables when the request arrived (history)
IdleTest == [quantity |-> Null, id |-> 0, pc |-> "idle", stock_code |-> "",
             status |-> 0, test_mode |-> TRUE,
             before |-> [retail |-> <<>>, inventory |-> <<>>]]

TestCodes == {"A", "B", ""}
TestQuantities == {Null, V(1), V(-1)}

\* the inventory rows a statement on connection c reads: the committed rows
\* and the rows its own transaction wrote
InventoryOn(c) == conn[c].inventory @@ inventory

\* a row of inventory written by the open transaction of another connection
\* is locked until that transaction ends
LockedFor(c, code) ==
    \E d \in Conns \ {c} : code \in DOMAIN conn[d].inventory

\* the trigger on retail that maintains inventory: the stock levels of the
\* row of NEW.stock_code fall by NEW.quantity
retail_inventory_trigger(inv, new) ==
    IF new.stockcode \in DOMAIN inv
    THEN (new.stockcode :>
            [current_stock |-> inv[new.stockcode].current_stock
                               - new.quantity[1],
             available_stock |-> inv[new.stockcode].available_stock
                                 - new.quantity[1]])
    ELSE <<>>

\* ROLLBACK on connection c: its transaction's rows are dropped
Rollback(c) == [conn EXCEPT ![c] = IdleConn]

\* the request arrives: 400 when stock_code or quantity is missing
TestRequest(r, code, q, mode) ==
    /\ test[r].pc = "idle"
    /\ test' = [test EXCEPT ![r] =
                  [quantity |-> q, id |-> 0,
                   pc |-> IF code = "" \/ IsNull(q) THEN "done" ELSE "before",
                   stock_code |-> code,
                   status |-> IF code = "" \/ IsNull(q) THEN 400 ELSE 0,
                   test_mode |-> mode,
                   before |-> [retail |-> retail, inventory |-> inventory]]]
    /\ UNCHANGED <<retail, retail0, orders, sess, lock, nextId, guard, resp,
                   inventory, env, built, conn>>
    /\ UNCHANGED apiVars

\* a statement on a connection whose transaction is aborted is refused; the
\* handler's catch runs ROLLBACK (a further db.query) in test mode when the
\* statement was inside the inner try, and answers 500
TestThrows(r, inner) ==
    IF inner /\ test[r].test_mode
    THEN test' = [test EXCEPT ![r].pc = "catch"]
    ELSE test' = [test EXCEPT ![r].pc = "done", ![r].status = 500]

\* SELECT * FROM inventory WHERE stock_code = $1, on connection c
TestSelectBefore(r, c) ==
    /\ test[r].pc = "before"
    /\ IF conn[c].tx = "aborted" THEN TestThrows(r, FALSE)
       ELSE IF test[r].stock_code \notin DOMAIN InventoryOn(c)
       THEN test' = [test EXCEPT ![r].pc = "done", ![r].status = 404]
       ELSE test' = [test EXCEPT ![r].pc = IF test[r].test_mode THEN "begin"
                                            ELSE "insert"]
    /\ UNCHANGED <<retail, retail0, orders, sess, lock, nextId, guard, resp,
                   inventory, env, built, conn>>
    /\ UNCHANGED apiVars

\* if (test_mode) await db.query('BEGIN'), on connection c
TestBegin(r, c) ==
    /\ test[r].pc = "begin"
    /\ IF conn[c].tx = "aborted"
       THEN /\ TestThrows(r, FALSE)
            /\ UNCHANGED conn
       ELSE /\ test' = [test EXCEPT ![r].pc = "insert"]
            /\ conn' = [conn EXCEPT ![c].tx = "open"]
    /\ UNCHANGED <<retail, retail0, orders, sess, lock, nextId, guard, resp,
                   inventory, env, built>>
    /\ UNCHANGED apiVars

\* INSERT INTO retail ... RETURNING *, on connection c, with its triggers
TestInsert(r, c) ==
    /\ test[r].pc = "insert"
    /\ ~LockedFor(c, test[r].stock_code)
    /\ LET new == [quantity |-> test[r].quantity, unit_price |-> V(10),
                   stockcode |-> test[r].stock_code]
           row == nextId :> new
           inv == retail_inventory_trigger(InventoryOn(c), new)
       IN IF conn[c].tx = "aborted"
          THEN /\ TestThrows(r, TRUE)
               /\ UNCHANGED <<retail, inventory, conn, nextId>>
          ELSE IF enforce_positive_values(new)
          THEN /\ TestThrows(r, TRUE)
               /\ conn' = [conn EXCEPT ![c].tx = IF @ = "open" THEN "aborted"
                                                  ELSE @]
               /\ nextId' = nextId + 1
               /\ UNCHANGED <<retail, inventory>>
          ELSE /\ test' = [test EXCEPT ![r].pc = "after", ![r].id = nextId]
               /\ nextId' = nextId + 1
               /\ IF conn[c].tx = "open"
                  THEN /\ conn' = [conn EXCEPT ![c].retail = row @@ @,
                                               ![c].inventory = inv @@ @]
                       /\ UNCHANGED <<retail, inventory>>
                  ELSE /\ retail' = row @@ retail
                       /\ inventory' = inv @@ inventory
                       /\ UNCHANGED conn
    /\ UNCHANGED <<retail0, orders, sess, lock, guard, resp, env, built>>
    /\ UNCHANGED apiVars

\* the SELECT of inventory after the insert, then the SELECT of
\* low_stock_alerts, each on a connection c
TestSelectAfter(r, c) ==
    /\ test[r].pc \in {"after", "alerts"}
    /\ IF conn[c].tx = "aborted" THEN TestThrows(r, TRUE)
       ELSE test' = [test EXCEPT ![r].pc = IF @ = "after" THEN "alerts"
                                            ELSE "end"]
    /\ UNCHANGED <<retail, retail0, orders, sess, lock, nextId, guard, resp,
                   inventory, env, built, conn>>
    /\ UNCHANGED apiVars

\* ROLLBACK in test mode, COMMIT otherwise, on connection c; then res.json
TestEnd(r, c) ==
    /\ test[r].pc = "end"
    /\ test' = [test EXCEPT ![r].pc = "done", ![r].status = 200]
    /\ conn' = Rollback(c)
    /\ IF test[r].test_mode \/ conn[c].tx # "open"
       THEN UNCHANGED <<retail, inventory>>
       ELSE /\ retail' = conn[c].retail @@ retail
            /\ inventory' = conn[c].inventory @@ inventory
    /\ UNCHANGED <<retail0, orders, sess, lock, nextId, guard, resp, env,
                   built>>
    /\ UNCHANGED apiVars

\* catch (triggerError) in test mode: ROLLBACK on connection c, rethrow, 500
TestCatch(r, c) ==
    /\ test[r].pc = "catch"
    /\ test' = [test EXCEPT ![r].pc = "done", ![r].status = 500]
    /\ conn' = Rollback(c)
    /\ UNCHANGED <<retail, retail0, orders, sess, lock, nextId, guard, resp,
                   inventory, env, built>>
    /\ UNCHANGED apiVars

------------------------------------------------------------------------------
(* routes/retail.js: POST /performance/query-analysis.  A query text is a    *)
(* sequence of characters; a stretch of SQL the route does not look into is  *)
(* one element.                                                              *)

KwSelect == <<"S", "E", "L", "E", "C", "T">>
KwSelectLower == <<"s", "e", "l", "e", "c", "t">>
SqlDelete == "DELETE FROM retail"
SqlAdjust == "adjust_inventory('A', -1, 'x')"

\* req.body.query; <<>> when it is missing or ''
AnalysisQueries ==
    {<<>>,
     KwSelect \o <<" ", "1">>,
     <<" ">> \o KwSelectLower \o <<" ", "1", " ">>,
     <<SqlDelete>>,
     KwSelect \o <<"E", "D">>,
     KwSelect \o <<" ", "1", ";", SqlDelete>>,
     KwSelectLower \o <<" ", "1", ";", " ", SqlDelete>>,
     KwSelect \o <<" ", SqlAdjust>>}

LowerChar(c) ==
    CASE c = "S" -> "s" [] c = "E" -> "e" [] c = "L" -> "l"
      [] c = "C" -> "c" [] c = "T" -> "t" [] c = "D" -> "d" [] OTHER -> c
toLowerCase(s) == [i \in 1..Len(s) |-> LowerChar(s[i])]

startsWith(s, prefix) ==
    Len(s) >= Len(prefix) /\ SubSeq(s, 1, Len(prefix)) = prefix

\* query.trim().toLowerCase().startsWith('select')
isSelect(query) == startsWith(toLowerCase(Trim(query)), KwSelectLower)

RECURSIVE SplitStatements(_, _)
\* the statements of a text PostgreSQL receives: split at ';', acc is the
\* statement read so far
SplitStatements(text, acc) ==
    IF text = <<>> THEN (IF Trim(acc) = <<>> THEN <<>> ELSE <<Trim(acc)>>)
    ELSE IF Head(text) = ";"
    THEN (IF Trim(acc) = <<>> THEN <<>> ELSE <<Trim(acc)>>)
         \o SplitStatements(Tail(text), <<>>)
    ELSE SplitStatements(Tail(text), Append(acc, Head(text)))

\* PostgreSQL parses the statement as a SELECT: the keyword, then a space
ParsesAsSelect(stmt) ==
    startsWith(toLowerCase(stmt), KwSelectLower \o <<" ">>)

Mentions(stmt, sql) == \E i \in 1..Len(stmt) : stmt[i] = sql

\* the tables after PostgreSQL has executed the statement
ExecRetail(stmt, table) == IF Mentions(stmt, SqlDelete) THEN <<>> ELSE table
ExecInventory(stmt, inv) ==
    IF Mentions(stmt, SqlAdjust) THEN adjust_inventory(inv, "A", -1) ELSE inv

RECURSIVE ExecAll(_, _)
\* [retail, inventory] after the statements have been executed in order
ExecAll(stmts, db) ==
    IF stmts = <<>> THEN db
    ELSE ExecAll(Tail(stmts),
                 [retail |-> ExecRetail(Head(stmts), db.retail),
                  inventory |-> ExecInventory(Head(stmts), db.inventory)])

\* db.query(`EXPLAIN (...) ${query}`): EXPLAIN applies to the first statement
\* of the text, which is executed only under ANALYZE; the statements after a
\* ';' are executed as they stand
explainQuery(query, analyze, db) ==
    LET stmts == SplitStatements(query, <<>>)
    IN ExecAll(IF analyze THEN stmts ELSE Tail(stmts), db)

\* router.post('/performance/query-analysis').  buffers: whether the server
\* accepts EXPLAIN (BUFFERS) without ANALYZE.  A text of several statements
\* is answered with an array of results, so result.rows[0] throws after the
\* statements have run.
QueryAnalysis(query, analyze, buffers) ==
    /\ IF query = <<>> \/ ~isSelect(query)
       THEN /\ resp' = [status |-> 400, query |-> query, analyzed |-> analyze]
            /\ UNCHANGED <<retail, inventory>>
       ELSE IF \/ ~ParsesAsSelect(SplitStatements(query, <<>>)[1])
               \/ ~analyze /\ ~buffers
       THEN /\ resp' = [status |-> 500, query |-> query, analyzed |-> analyze]
            /\ UNCHANGED <<retail, inventory>>
       ELSE LET db == explainQuery(query, analyze,
                                   [retail |-> retail, inventory |-> inventory])
            IN /\ retail' = db.retail
               /\ inventory' = db.inventory
               /\ \A c \in DOMAIN inventory' :
                     inventory'[c].current_stock \in 0..MaxLevel
               /\ resp' = [status |-> IF Len(SplitStatements(query, <<>>)) > 1
                                      THEN 500 ELSE 200,
                           query |-> query, analyzed |-> analyze]
    /\ UNCHANGED <<retail0, orders, sess, lock, nextId, guard, env, built,
                   conn, test>>
    /\ UNCHANGED apiVars

------------------------------------------------------------------------------
(* Specification of concurrent INSERT INTO orders statements *)

RetailIds == 1..MaxRetailRows

InitRows == [stockcode : StockCodes, quantity : {V(n) : n \in InitStock},
             unit_price : {V(1)}]

InitTables == UNION {[1..n -> InitRows] : n \in 1..MaxRetailRows}

NoResp == [status |-> 0]

InitOrders ==
    /\ retail \in InitTables
    /\ retail0 = retail
    /\ orders = <<>>
    /\ sess = [s \in Sessions |-> IdleSess]
    /\ lock = [id \in RetailIds |-> NoSession]
    /\ nextId = Cardinality(DOMAIN retail) + 1
    /\ guard = NoGuard
    /\ inventory = InitInventory
    /\ env = "production"
    /\ built = <<>>
    /\ conn = [c \in Conns |-> IdleConn]
    /\ test = [r \in Slots |-> IdleTest]
    /\ resp = NoResp
    /\ ApiIdle

NextOrders ==
    \E s \in Sessions :
        \/ \E pid \in StockCodes, q \in OrderQty : InsertOrder(s, pid, q)
        \/ TrgUpdateRow(s)
        \/ Commit(s)

SpecOrders == InitOrders /\ [][NextOrders]_vars

------------------------------------------------------------------------------
(* Specification of the retail routes running beside INSERT INTO orders *)

InitRetail ==
    /\ retail = 1 :> [quantity |-> V(3), unit_price |-> V(1),
                      stockcode |-> "A"]
    /\ retail0 = retail
    /\ orders = <<>>
    /\ sess = [s \in Sessions |-> IdleSess]
    /\ lock = [id \in RetailIds |-> NoSession]
    /\ nextId = Cardinality(DOMAIN retail) + 1
    /\ guard = NoGuard
    /\ inventory = InitInventory
    /\ env = "production"
    /\ built = <<>>
    /\ conn = [c \in Conns |-> IdleConn]
    /\ test = [r \in Slots |-> IdleTest]
    /\ resp = NoResp
    /\ ApiIdle

NextRetail ==
    \/ \E s \in {"s1"} :
          \/ \E pid \in {"A"}, q \in {2} : InsertOrder(s, pid, q)
          \/ TrgUpdateRow(s)
          \/ Commit(s)
    \/ \E body \in RetailBodies : RetailPost(body)
    \/ \E idp \in RetailIdParams, body \in RetailBodies : RetailPut(idp, body)
    \/ \E idp \in RetailIdParams : RetailDelete(idp)

SpecRetail == InitRetail /\ [][NextRetail]_vars

------------------------------------------------------------------------------
(* Specification of GET, PUT and DELETE /api/products/:id, one request at a  *)
(* time; GET over every identifier of at most MaxIdLen characters            *)

\* a stored product with stock_code code
BaseRow(code) ==
    [c \in MutableCols |->
        CASE c = "stock_code" -> <<code>>
          [] c = "description" -> <<(<<"A">>)>>
          [] c = "unit_price" -> V(1)
          [] c = "stock_quantity" -> V(0)
          [] c = "reorder_level" -> V(10)
          [] c = "is_active" -> <<TRUE>>
          [] OTHER -> Null]

\* a request body that passes validateProduct, with stock_code code
BaseBody(code) ==
    [NoBody EXCEPT !.stock_code = JsStr(code), !.description = JsStr(<<"A">>)]

\* the tables of at most MaxProducts products with distinct stock codes
InitProductTables ==
    UNION {{t \in [1..n -> {BaseRow(code) : code \in ProductCodes}] :
               \A i, j \in 1..n : i # j => t[i].stock_code # t[j].stock_code} :
           n \in 0..MaxProducts}

InitLookup ==
    /\ retail = EmptyTable
    /\ retail0 = retail
    /\ orders = <<>>
    /\ sess = [s \in Sessions |-> IdleSess]
    /\ lock = [id \in RetailIds |-> NoSession]
    /\ nextId = 1
    /\ guard = NoGuard
    /\ inventory = InitInventory
    /\ env = "production"
    /\ built = <<>>
    /\ conn = [c \in Conns |-> IdleConn]
    /\ test = [r \in Slots |-> IdleTest]
    /\ resp = NoResp
    /\ products \in InitProductTables
    /\ order_items \in [ProductIds -> DepCounts]
    /\ inventory_movements \in [ProductIds -> DepCounts]
    /\ \A pid \in ProductIds \ (DOMAIN products \cap {1}) :
          order_items[pid] = 0 /\ inventory_movements[pid] = 0
    /\ nextPid = Cardinality(DOMAIN products) + 1
    /\ pool = 0
    /\ req = [r \in Slots |-> IdleReq]

\* the :id parameters of PUT and DELETE: one of each class of identifier
MutateIdParams ==
    {<<"1">>, <<"2">>, <<"A">>, <<"1", "A">>, <<" ", "1">>, <<"1", ".">>,
     <<".", "1">>, <<"1", ".", "2">>}

NextLookup ==
    \E r \in {"r1"} :
        \/ \E id \in IdParams : Request(r, "GET", id, NoBody)
        \/ \E id \in MutateIdParams : Request(r, "DELETE", id, NoBody)
        \/ \E id \in MutateIdParams : Request(r, "PUT", id, BaseBody(<<"A">>))
        \/ Connect(r)
        \/ GetSelect(r)
        \/ GetAnalytics(r)
        \/ PutCheck(r)
        \/ PutUpdate(r)
        \/ DeleteCheck(r)
        \/ DeleteExec(r)

SpecLookup == InitLookup /\ [][NextLookup]_vars

------------------------------------------------------------------------------
(* Claims on the stock trigger *)

\* C1: when an order row with quantity q commits, every retail row of the
\* referenced product goes from its stock s to s - q in that same step (20 and
\* 5 give 15), no other row changes, and retail never changes without an
\* order row committing with it.
C1_DecrementWithInsert ==
    [][(orders' # orders \/ retail' # retail) =>
        /\ Len(orders') = Len(orders) + 1
        /\ SubSeq(orders', 1, Len(orders)) = orders
        /\ DOMAIN retail' = DOMAIN retail
        /\ LET new == orders'[Len(orders')]
           IN \A id \in DOMAIN retail :
                 retail'[id] =
                    IF retail[id].stockcode = new.product_id
                    THEN [retail[id] EXCEPT
                            !.quantity = V(retail[id].quantity[1] - new.quantity)]
                    ELSE retail[id]
      ]_vars

\* an order of 5 against a stock of 20 has committed and left 15
C1_Witness ==
    /\ 1 \in DOMAIN retail
    /\ retail0[1].quantity = V(20)
    /\ orders = <<[product_id |-> retail0[1].stockcode, quantity |-> 5]>>
    /\ retail[1].quantity = V(15)

\* C2: under every interleaving of INSERT INTO orders statements, the stock of
\* each retail row equals its initial stock minus the sum of the quantities
\* of the committed order rows of its product: no decrement is lost.
C2_NoLostDecrement ==
    \A id \in DOMAIN retail :
        retail[id].quantity =
            V(retail0[id].quantity[1] - SumQty(orders, retail[id].stockcode))

\* two inserts on one product ran concurrently: a session holds the lock of a
\* row that another transaction changed and committed after this session's
\* statement took its snapshot, and both decrements are in its new version
C2_Witness ==
    \E s \in Sessions : \E id \in DOMAIN sess[s].writes :
        /\ sess[s].snap[id].quantity # retail[id].quantity
        /\ Len(orders) >= 1
        /\ orders[Len(orders)].product_id = sess[s].new.product_id
        /\ sess[s].writes[id].quantity =
              V(sess[s].snap[id].quantity[1] - orders[Len(orders)].quantity
                  - sess[s].new.quantity)

------------------------------------------------------------------------------
(* Claims on the positive-value guard *)

\* C3: whenever trg_enforce_positive_values fires for a row (an INSERT or an
\* UPDATE of the retail routes, or the UPDATE of the stock trigger) whose new
\* quantity or unit_price is negative, the statement is rejected and the
\* stored retail and orders rows stay as they were; when both are zero or
\* positive the guard lets the row through and the new version is kept.
C3_GuardRejectsNegative ==
    [][guard'.fired =>
        LET q == guard'.quantity
            p == guard'.unit_price
            id == guard'.id
            neg == (q # Null /\ q[1] < 0) \/ (p # Null /\ p[1] < 0)
            nonneg == q # Null /\ q[1] >= 0 /\ p # Null /\ p[1] >= 0
            kept(row) == row.quantity = q /\ row.unit_price = p
        IN /\ neg =>
                /\ retail' = retail
                /\ orders' = orders
                /\ guard'.op \in {"insert", "update"} => resp'.status >= 400
                /\ guard'.op = "trigger" =>
                      \E s \in Sessions :
                          /\ sess[s].pc = "update"
                          /\ sess'[s] = IdleSess
                          /\ \A i \in DOMAIN lock' : lock'[i] # s
           /\ nonneg =>
                /\ guard'.op = "insert" =>
                      /\ resp'.status = 201
                      /\ id \notin DOMAIN retail
                      /\ id \in DOMAIN retail'
                      /\ kept(retail'[id])
                /\ guard'.op = "update" =>
                      /\ resp'.status = 200
                      /\ kept(retail'[id])
                /\ guard'.op = "trigger" =>
                      \E s \in Sessions :
                          /\ sess'[s].pc = "update"
                          /\ id \in DOMAIN sess'[s].writes
                          /\ kept(sess'[s].writes[id])
      ]_vars

\* an UPDATE with a negative unit_price was rejected and the stored row still
\* holds its earlier, non-negative values
C3_Witness ==
    /\ guard.fired
    /\ guard.op = "update"
    /\ guard.unit_price = V(-1)
    /\ resp.status = 500
    /\ guard.id \in DOMAIN retail
    /\ retail[guard.id].unit_price = V(0)
    /\ Len(orders) >= 1

------------------------------------------------------------------------------
(* Claims on the products API, one request at a time *)

\* C4: a DELETE whose check finds the product with no order_items and no
\* inventory_movements row goes on to delete it, and its DELETE statement
\* removes that product and answers 200 with the row it removed; a DELETE
\* whose check finds at least one such row answers 409 and leaves the
\* products table as it was.
C4_DeleteBlockedByDependents ==
    [][\A r \in Slots :
        /\ (req[r].op = "DELETE" /\ req[r].pc = "check"
              /\ req'[r].pc # "check" /\ SelectProduct(req[r].id).rows # {}) =>
              LET pid == First(SelectProduct(req[r].id).rows)
              IN IF order_items[pid] + inventory_movements[pid] = 0
                 THEN req'[r].pc = "delete" /\ req'[r].pid = pid
                 ELSE /\ req'[r].pc = "done"
                      /\ req'[r].status = 409
                      /\ products' = products
        /\ (req[r].op = "DELETE" /\ req[r].pc = "delete" /\ req'[r].pc = "done") =>
              /\ req'[r].status = 200
              /\ req[r].pid \in DOMAIN products
              /\ req'[r].data = [pid |-> req[r].pid, row |-> products[req[r].pid]]
              /\ DOMAIN products' = DOMAIN products \ {req[r].pid}
              /\ \A p \in DOMAIN products' : products'[p] = products[p]
      ]_vars

\* a DELETE by stock_code has removed a product without dependent rows and
\* returned its row, while a product with dependent rows is still stored
C4_Witness ==
    \E r \in Slots :
        /\ req[r].op = "DELETE" /\ req[r].pc = "done" /\ req[r].status = 200
        /\ req[r].id = <<"A">>
        /\ req[r].data.row.stock_code = <<(<<"A">>)>>
        /\ req[r].data.pid \notin DOMAIN products
        /\ \E p \in DOMAIN products : inventory_movements[p] > 0

\* the product a lookup step of slot r has found: 0 when none
C5_Found(r) ==
    IF req[r].pc \in {"analytics", "update", "delete"} \/ req[r].status = 409
    THEN req[r].pid ELSE 0

\* a lookup step of slot r: the first query of GET, PUT or DELETE has returned
C5_LookupStep(r) ==
    /\ req[r].pc \in {"select", "check"}
    /\ req'[r].pc # req[r].pc

\* the identifier, white space trimmed, reads d+, d+., .d+ or d+.d+
C5_Numeric(id) ==
    LET t == Trim(id)
    IN \E i \in 0..Len(t), j \in 0..Len(t) :
          /\ i + j >= 1
          /\ \/ i + j = Len(t) /\ j = 0
             \/ i + j + 1 = Len(t) /\ t[i + 1] = "."
          /\ \A k \in 1..i : IsDigit(t[k])
          /\ \A k \in (Len(t) - j + 1)..Len(t) : IsDigit(t[k])

\* the identifier is a decimal integer, white space aside
C5_Integer(id) == Trim(id) # <<>> /\ \A k \in 1..Len(Trim(id)) : IsDigit(Trim(id)[k])

\* C5 (as the claim states it): a lookup finds product p exactly when the
\* identifier equals p's stock_code or is the number p.
C5_FoundByEitherKey ==
    [][\A r \in Slots : C5_LookupStep(r) =>
          \A p \in DOMAIN products :
              (C5_Found(r)' = p) <=>
                 \/ products[p].stock_code = <<req[r].id>>
                 \/ C5_Integer(req[r].id) /\ DigitsValue(Trim(req[r].id), 0) = p
      ]_vars

\* C5 (what the handlers do): an identifier that reads as a number is
\* searched in product_id with the integer parseInt makes of it (its leading
\* digits), any other identifier is searched in stock_code; a product is found
\* by its stock_code exactly when the identifier does not read as a number and
\* equals the stock_code, and by its product_id exactly when the identifier
\* reads as a number whose leading digits are the product_id; an identifier
\* that reads as a number but has no leading digit (".5") is answered 500.
C5_SearchByClass ==
    [][\A r \in Slots : C5_LookupStep(r) =>
          LET id == req[r].id
              lead == TrimLeft(id)
          IN /\ \A p \in DOMAIN products :
                  (C5_Found(r)' = p) <=>
                     IF C5_Numeric(id)
                     THEN IsDigit(lead[1]) /\ DigitsValue(lead, 0) = p
                     ELSE products[p].stock_code = <<id>>
             /\ (req'[r].pc = "done" /\ req'[r].status = 500) <=>
                  (C5_Numeric(id) /\ ~IsDigit(lead[1]))
             /\ (req'[r].pc = "done" /\ req'[r].status = 404) <=>
                  /\ C5_Found(r)' = 0
                  /\ ~(C5_Numeric(id) /\ ~IsDigit(lead[1]))
      ]_vars

\* GET /api/products/2 has found product 2 by its product_id while another
\* product has the stock_code "2"; GET /api/products/1.2 has found product 1
C5_Witness ==
    \E r \in Slots :
        /\ req[r].op = "GET" /\ req[r].pc = "analytics"
        /\ \/ /\ req[r].id = <<"2">>
              /\ req[r].pid = 2
              /\ \E p \in DOMAIN products :
                    p # 2 /\ products[p].stock_code = <<(<<"2">>)>>
           \/ req[r].id = <<"1", ".", "2">> /\ req[r].pid = 1

------------------------------------------------------------------------------
(* Specification of POST /api/products and PUT /api/products/:id, one        *)
(* request at a time, over bodies that vary one validated field at a time    *)
(* and bodies that give every optional column, all but one, or none          *)

\* a string of n characters
Long(n) == [i \in 1..n |-> "A"]

StockCodeInputs ==
    {JsUndef, JsNull, JsStr(<<>>), JsStr(<<"A">>), JsStr(Long(MaxStockCodeLen)),
     JsStr(Long(MaxStockCodeLen + 1)), JsNum(5), JsBool(TRUE)}
DescriptionInputs == {JsUndef, JsNull, JsStr(<<>>), JsStr(<<"A">>), JsNum(1)}
UnitPriceInputs ==
    {JsUndef, JsNull, JsNum(0), JsNum(-1), JsNum(3), JsStr(<<"2">>),
     JsStr(<<"A">>), JsStr(<<>>), JsBool(TRUE), JsBool(FALSE)}

ValidationBodies ==
    {[BaseBody(<<"A">>) EXCEPT !.stock_code = v] : v \in StockCodeInputs}
    \cup {[BaseBody(<<"A">>) EXCEPT !.description = v] : v \in DescriptionInputs}
    \cup {[BaseBody(<<"A">>) EXCEPT !.unit_price = v] : v \in UnitPriceInputs}

\* a body that gives every mutable column
FullBody ==
    [c \in MutableCols |->
        CASE c = "stock_code" -> JsStr(<<"2">>)
          [] c = "description" -> JsStr(<<"1", "A">>)
          [] c = "category_id" -> JsNum(1)
          [] c = "unit_price" -> JsNum(3)
          [] c = "stock_quantity" -> JsNum(5)
          [] c = "reorder_level" -> JsNum(2)
          [] c = "supplier_info" -> JsStr(<<"A">>)
          [] c = "is_active" -> JsBool(FALSE)
          [] c = "weight" -> JsNum(2)
          [] c = "dimensions" -> JsStr(<<"1">>)]

ColumnBodies ==
    {FullBody} \cup {[FullBody EXCEPT ![c] = JsUndef] :
                        c \in {"category_id", "is_active", "dimensions"}}

Bodies == ValidationBodies \cup ColumnBodies
PutIds == {<<"1">>, <<"A">>}

InitMutate ==
    /\ retail = EmptyTable
    /\ retail0 = retail
    /\ orders = <<>>
    /\ sess = [s \in Sessions |-> IdleSess]
    /\ lock = [id \in RetailIds |-> NoSession]
    /\ nextId = 1
    /\ guard = NoGuard
    /\ inventory = InitInventory
    /\ env = "production"
    /\ built = <<>>
    /\ conn = [c \in Conns |-> IdleConn]
    /\ test = [r \in Slots |-> IdleTest]
    /\ resp = NoResp
    /\ products \in InitProductTables
    /\ order_items = [pid \in ProductIds |-> 0]
    /\ inventory_movements = [pid \in ProductIds |-> 0]
    /\ nextPid = Cardinality(DOMAIN products) + 1
    /\ pool = 0
    /\ req = [r \in Slots |-> IdleReq]

NextMutate ==
    \E r \in {"r1"} :
        \/ \E body \in Bodies : Request(r, "POST", <<>>, body)
        \/ \E id \in PutIds, body \in Bodies : Request(r, "PUT", id, body)
        \/ Connect(r)
        \/ PostInsert(r)
        \/ PutCheck(r)
        \/ PutUpdate(r)

SpecMutate == InitMutate /\ [][NextMutate]_vars

\* the value reads as a number: a number, or a string that spells one
C9_Numeric(v) ==
    \/ v.t = "number"
    \/ v.t = "string" /\ Trim(v.s) # <<>> /\ ~isNaN_str(v.s)

\* C9: a POST or PUT body with stock_code or description missing, stock_code
\* not a string or longer than 20 characters, or unit_price present but not
\* numeric or not > 0 is answered 400 when it arrives, with no client taken
\* from the pool and the products table unchanged; a body that is not
\* rejected has a string stock_code of at most 20 characters and, if present,
\* a numeric unit_price > 0.
C9_InvalidBodyRejected ==
    [][\A r \in Slots :
        (/\ req[r].pc \in {"idle", "done"}
         /\ req'[r].op \in {"POST", "PUT"}
         /\ req'[r].pc \in {"connect", "done"}) =>
          LET body == req'[r].body
              rejected == /\ req'[r].pc = "done" /\ req'[r].status = 400
                          /\ pool' = pool /\ products' = products
              missing == \/ body.stock_code.t \in {"undefined", "null"}
                         \/ body.stock_code = JsStr(<<>>)
                         \/ body.description.t \in {"undefined", "null"}
                         \/ body.description = JsStr(<<>>)
              badCode == \/ body.stock_code.t # "string"
                         \/ Len(body.stock_code.s) > 20
              badPrice == /\ body.unit_price # JsUndef
                          /\ \/ ~C9_Numeric(body.unit_price)
                             \/ NumberSign(body.unit_price) # "pos"
          IN /\ (missing \/ badCode \/ badPrice) => rejected
             /\ ~rejected => ~badCode /\ ~badPrice
      ]_vars

\* C10: a PUT that answers 200 leaves in each of the ten mutable columns of
\* its product the value of the body's field, and NULL where the body has no
\* such field.
C10_FullRowReplace ==
    [][\A r \in Slots :
        (/\ req[r].op = "PUT" /\ req[r].pc = "update"
         /\ req'[r].pc = "done" /\ req'[r].status = 200
         /\ req[r].pid \in DOMAIN products) =>
          /\ req[r].pid \in DOMAIN products'
          /\ \A c \in MutableCols :
                products'[req[r].pid][c] =
                    IF req[r].body[c] = JsUndef THEN Null
                    ELSE PgParam(c, req[r].body[c]).v
          /\ req'[r].data = [pid |-> req[r].pid, row |-> products'[req[r].pid]]
      ]_vars

\* a PUT with only stock_code, description and unit_price has answered 200 and
\* the product's other columns, stock_quantity and reorder_level among them,
\* are NULL
C10_Witness ==
    \E r \in Slots :
        /\ req[r].op = "PUT" /\ req[r].pc = "done" /\ req[r].status = 200
        /\ req[r].body = [BaseBody(<<"A">>) EXCEPT !.unit_price = JsNum(3)]
        /\ req[r].data.pid \in DOMAIN products
        /\ products[req[r].data.pid] =
              [NoRow EXCEPT !.stock_code = <<(<<"A">>)>>,
                            !.description = <<(<<"A">>)>>,
                            !.unit_price = V(3)]

------------------------------------------------------------------------------
(* Specification of GET /api/products with page and limit, while a second    *)
(* request adds and deletes products                                         *)

PageInputs == {JsUndef, JsStr(<<"1">>), JsStr(<<"2">>)}
LimitInputs == {JsUndef, JsStr(<<"1">>), JsStr(<<"2">>)}

PagingQueries ==
    {[NoQuery EXCEPT !.page = pg, !.limit = lm] : pg \in PageInputs, lm \in LimitInputs}

InitList == InitMutate

NextList ==
    \/ \E q \in PagingQueries : ListRequest("r1", q)
    \/ ListPage("r1")
    \/ ListCount("r1")
    \/ \E code \in ProductCodes : Request("r2", "POST", <<>>, BaseBody(code))
    \/ \E id \in {<<"1">>, <<"2">>} : Request("r2", "DELETE", id, NoBody)
    \/ \E r \in Slots : Connect(r)
    \/ PostInsert("r2")
    \/ DeleteCheck("r2")
    \/ DeleteExec("r2")

SpecList == InitList /\ [][NextList]_vars

------------------------------------------------------------------------------
(* Specification of GET /api/products with sort_by and sort_order, one       *)
(* request at a time                                                         *)

SortByInputs ==
    {JsUndef, JsStr(<<"stock_code">>), JsStr(<<"product_id">>), JsStr(<<"bogus">>),
     JsStr(<<>>), JsArr}
SortOrderInputs ==
    {JsUndef, JsStr(<<"A", "S", "C">>), JsStr(<<"D", "E", "S", "C">>),
     JsStr(<<"d", "e", "s", "c">>), JsStr(<<"a", "s", "c">>), JsStr(<<"D", "E">>),
     JsStr(<<>>), JsArr}

SortingQueries ==
    {[NoQuery EXCEPT !.sort_by = sb, !.sort_order = so, !.limit = lm] :
        sb \in SortByInputs, so \in SortOrderInputs, lm \in {JsUndef, JsStr(<<"2">>)}}

InitSort == InitMutate

NextSort ==
    \E r \in {"r1"} :
        \/ \E q \in SortingQueries : ListRequest(r, q)
        \/ Connect(r)
        \/ ListPage(r)
        \/ ListCount(r)

SpecSort == InitSort /\ [][NextSort]_vars

\* the stock_code of a stored product, as text
C7_Code(p) == products[p].stock_code[1]

\* C6: every successful GET /api/products (page >= 1, limit > 0) returns at
\* most limit rows, and its total_pages is the least number of pages of limit
\* rows that hold total_records rows, whatever was inserted or deleted between
\* the page query and the count query.
C6_PageWithinLimit ==
    [][\A r \in Slots :
        (req[r].op = "LIST" /\ req[r].pc = "count" /\ req'[r].pc = "done") =>
          LET limit == IF req[r].query.limit = JsUndef THEN 10
                       ELSE DigitsValue(req[r].query.limit.s, 0)
          IN /\ req'[r].status = 200
             /\ Len(req'[r].rows) <= limit
             /\ req'[r].total = Cardinality(DOMAIN products)
             /\ req'[r].total_pages * limit >= req'[r].total
             /\ (req'[r].total_pages - 1) * limit < req'[r].total
                    \/ req'[r].total_pages = 0
      ]_vars

\* a listing with limit 1 returned its one row and then counted two products:
\* a product was inserted between the two queries
C6_Witness ==
    \E r \in Slots :
        /\ req[r].op = "LIST" /\ req[r].pc = "done" /\ req[r].status = 200
        /\ req[r].query.limit = JsStr(<<"1">>) /\ req[r].query.page = JsStr(<<"2">>)
        /\ req[r].rows = <<>>
        /\ req[r].total = 2 /\ req[r].total_pages = 2

\* C7 (as the claim states it): a listing whose sort_by is outside the
\* allow-list succeeds with its rows in ascending stock_code order.
C7_UnknownSortByAscending ==
    [][\A r \in Slots :
        (/\ req[r].op = "LIST" /\ req[r].pc = "page" /\ req'[r].pc # "page"
         /\ QueryDefaults(req[r].query).sort_by \notin validSortColumns) =>
          /\ req'[r].pc = "count"
          /\ \A i, j \in 1..Len(req'[r].rows) :
                i < j => TextLess(C7_Code(req'[r].rows[i]), C7_Code(req'[r].rows[j]))
      ]_vars

\* C7 (amended): a listing whose sort_by is outside the allow-list is ordered
\* by stock_code in the direction its sort_order selects: descending when
\* sort_order is DESC in any letter case, ascending for every other string;
\* the sort_by value causes no error (the listing fails only when sort_order
\* is not a string).
C7_UnknownSortByStockCode ==
    [][\A r \in Slots :
        (/\ req[r].op = "LIST" /\ req[r].pc = "page" /\ req'[r].pc # "page"
         /\ QueryDefaults(req[r].query).sort_by \notin validSortColumns) =>
          LET so == QueryDefaults(req[r].query).sort_order
              desc == toUpperCase(so.s) = <<"D", "E", "S", "C">>
              rows == req'[r].rows
          IN IF so.t = "string"
             THEN /\ req'[r].pc = "count"
                  /\ \A i, j \in 1..Len(rows) :
                        i < j => IF desc THEN TextLess(C7_Code(rows[j]), C7_Code(rows[i]))
                                 ELSE TextLess(C7_Code(rows[i]), C7_Code(rows[j]))
             ELSE req'[r].pc = "done" /\ req'[r].status = 500
      ]_vars

\* a listing with sort_by=bogus and sort_order=desc has returned two products,
\* the greater stock_code first
C7_Witness ==
    \E r \in Slots :
        /\ req[r].op = "LIST" /\ req[r].pc = "count"
        /\ req[r].query.sort_by = JsStr(<<"bogus">>)
        /\ req[r].query.sort_order = JsStr(<<"d", "e", "s", "c">>)
        /\ Len(req[r].rows) = 2
        /\ {req[r].rows[1], req[r].rows[2]} \subseteq DOMAIN products
        /\ TextLess(C7_Code(req[r].rows[2]), C7_Code(req[r].rows[1]))

\* C8: a listing uses the direction DESC only when its sort_order, compared
\* case-insensitively, is DESC; with any other supplied sort_order value it
\* does not fail and its rows are in ascending order of the sort column.
C8_SortOrderFallsBack ==
    [][\A r \in Slots :
        (/\ req[r].op = "LIST" /\ req[r].pc = "page" /\ req'[r].pc # "page"
         /\ req[r].query.sort_order # JsUndef) =>
          LET q == QueryDefaults(req[r].query)
              desc == q.sort_order.t = "string"
                      /\ toUpperCase(q.sort_order.s) = <<"D", "E", "S", "C">>
              rows == req'[r].rows
          IN /\ req'[r].pc = "count"
             /\ \A i, j \in 1..Len(rows) :
                   i < j => IF desc THEN RowLess(rows[j], rows[i], sortColumn(q.sort_by))
                            ELSE RowLess(rows[i], rows[j], sortColumn(q.sort_by))
      ]_vars

------------------------------------------------------------------------------
(* Specification of the connection pool: two requests at a time to the       *)
(* products endpoints and the health check, with queries and pool.connect()  *)
(* that may fail                                                             *)

InitPool ==
    /\ retail = EmptyTable
    /\ retail0 = retail
    /\ orders = <<>>
    /\ sess = [s \in Sessions |-> IdleSess]
    /\ lock = [id \in RetailIds |-> NoSession]
    /\ nextId = 1
    /\ guard = NoGuard
    /\ inventory = InitInventory
    /\ env = "production"
    /\ built = <<>>
    /\ conn = [c \in Conns |-> IdleConn]
    /\ test = [r \in Slots |-> IdleTest]
    /\ resp = NoResp
    /\ products = (1 :> BaseRow(<<"A">>))
    /\ order_items \in {[pid \in ProductIds |-> IF pid = 1 THEN n ELSE 0] :
                          n \in DepCounts}
    /\ inventory_movements = [pid \in ProductIds |-> 0]
    /\ nextPid = 2
    /\ pool = 0
    /\ req = [r \in Slots |-> IdleReq]

NextPool ==
    \E r \in Slots :
        \/ \E id \in {<<"1">>, <<"2">>} : Request(r, "GET", id, NoBody)
        \/ Request(r, "DELETE", <<"1">>, NoBody)
        \/ \E op \in {"HEALTH", "SUMMARY"} : Request(r, op, <<>>, NoBody)
        \/ Connect(r)
        \/ ConnectTimeout(r)
        \/ GetSelect(r)
        \/ GetAnalytics(r)
        \/ DeleteCheck(r)
        \/ DeleteExec(r)
        \/ Summary(r)
        \/ \E ok \in BOOLEAN : HealthQuery(r, ok)
        \/ QueryFails(r, "08006")

SpecPool == InitPool /\ [][NextPool]_vars

\* C11: the clients checked out of the pool are those of the requests that
\* hold one: every finished request has released its client, and with no
\* request in flight no client is checked out.
C11_ClientsReleased ==
    pool = Cardinality({r \in Slots : req[r].pc \in QueryPcs \cup {"ping"}})

\* failed health checks have taken all PoolMax clients out of the pool and
\* no request is in flight
C11_Witness ==
    /\ pool = PoolMax
    /\ \A r \in Slots : req[r].pc \in {"idle", "done"}
    /\ \E r \in Slots : req[r].op = "HEALTH" /\ req[r].status = 503

\* a step of the handler of slot r: the event loop runs every handler that
\* can continue
PoolStep(r) ==
    \/ Connect(r)
    \/ ConnectTimeout(r)
    \/ GetSelect(r)
    \/ GetAnalytics(r)
    \/ DeleteCheck(r)
    \/ DeleteExec(r)
    \/ Summary(r)
    \/ \E ok \in BOOLEAN : HealthQuery(r, ok)
    \/ QueryFails(r, "08006")

SpecPoolFair ==
    InitPool /\ [][NextPool]_vars /\ \A r \in Slots : WF_vars(PoolStep(r))

\* C12: a request whose pool.connect() does not yield a client is eventually
\* answered with a 5xx status: every request that waits for a client
\* eventually holds one or has its server-error response.
C12_AcquireFailureAnswered ==
    \A r \in Slots :
        (req[r].pc = "connect") ~>
            \/ req[r].pc \in QueryPcs \cup {"ping"}
            \/ req[r].pc = "done" /\ req[r].status >= 500

\* pool.connect() has failed for a GET and for a health check: the health
\* check has its 503, the GET has no response
C12_Witness ==
    /\ req["r1"].op = "GET" /\ req["r1"].pc = "hung"
    /\ req["r2"].op = "HEALTH" /\ req["r2"].pc = "done" /\ req["r2"].status = 503
    /\ pool = 0

------------------------------------------------------------------------------
(* Specification of the products handlers, one request at a time, with       *)
(* queries that may throw an error of any class                              *)

NextErrors ==
    \E r \in {"r1"} :
        \/ \E id \in {<<"1">>, <<"2">>, <<".", "1">>} : Request(r, "GET", id, NoBody)
        \/ \E id \in {<<"1">>, <<"2">>} : Request(r, "DELETE", id, NoBody)
        \/ \E code \in {<<"A">>, <<"2">>} : Request(r, "POST", <<>>, BaseBody(code))
        \/ \E id \in {<<"1">>, <<"2">>}, code \in {<<"A">>, <<"2">>} :
              Request(r, "PUT", id, BaseBody(code))
        \/ \E q \in {NoQuery, [NoQuery EXCEPT !.sort_order = JsArr]} : ListRequest(r, q)
        \/ Request(r, "SUMMARY", <<>>, NoBody)
        \/ Connect(r)
        \/ GetSelect(r)
        \/ GetAnalytics(r)
        \/ PostInsert(r)
        \/ PutCheck(r)
        \/ PutUpdate(r)
        \/ DeleteCheck(r)
        \/ DeleteExec(r)
        \/ ListPage(r)
        \/ ListCount(r)
        \/ Summary(r)
        \/ \E code \in FailureCodes : QueryFails(r, code)

SpecErrors == InitPool /\ [][NextErrors]_vars

------------------------------------------------------------------------------
(* Claims on the retail routes and the stock trigger *)

\* C14: an INSERT or UPDATE of the retail routes that the guard rejects for a
\* negative quantity or unit_price is answered 400.
C14_GuardRejectionIs400 ==
    [][(/\ guard'.fired
        /\ guard'.op \in {"insert", "update"}
        /\ enforce_positive_values([quantity |-> guard'.quantity,
                                    unit_price |-> guard'.unit_price]))
          => resp'.status = 400
      ]_vars

\* a POST /api/retail with a negative quantity was rejected by the guard and
\* answered 500
C14_Witness ==
    /\ guard.fired
    /\ guard.op = "insert"
    /\ guard.quantity = V(-1)
    /\ guard.id \notin DOMAIN retail
    /\ resp.status = 500

\* C15: an order row whose product_id matches no retail row never becomes
\* visible: every order row that is committed had a retail row to decrement.
C15_UnmatchedInsertAborts ==
    [][Len(orders') > Len(orders) =>
          Matching(retail, orders'[Len(orders')]) # {}
      ]_vars

\* an order for product "B" is committed, no retail row has stockcode "B" and
\* the retail table is as it was
C15_Witness ==
    /\ \E i \in 1..Len(orders) : orders[i].product_id = "B"
    /\ \A id \in DOMAIN retail : retail[id].stockcode # "B"
    /\ retail = retail0
    /\ \A s \in Sessions : sess[s].pc = "idle"

------------------------------------------------------------------------------
(* Specification of two concurrent requests that create, re-key and delete   *)
(* products                                                                  *)

KeyCodes == {<<"A">>, <<"2">>}

NextKeys ==
    \E r \in Slots :
        \/ \E code \in KeyCodes : Request(r, "POST", <<>>, BaseBody(code))
        \/ \E id \in {<<"1">>, <<"2">>}, code \in KeyCodes :
              Request(r, "PUT", id, BaseBody(code))
        \/ Request(r, "DELETE", <<"1">>, NoBody)
        \/ Connect(r)
        \/ PostInsert(r)
        \/ PutCheck(r)
        \/ PutUpdate(r)
        \/ DeleteCheck(r)
        \/ DeleteExec(r)

SpecKeys == InitMutate /\ [][NextKeys]_vars

\* C16: after every step no two products have the same stock_code (the
\* initial tables have none either), and an INSERT or UPDATE
\* whose stock_code another product holds is answered 409 and leaves the
\* products table as it was.
C16_UniqueStockCode ==
    [][/\ \A p, q \in DOMAIN products' :
             p # q => products'[p].stock_code # products'[q].stock_code
       /\ \A r \in Slots :
            (/\ req[r].pc \in {"insert", "update"} /\ req'[r].pc = "done"
             /\ \E other \in DOMAIN products :
                   /\ req[r].pc = "update" => other # req[r].pid
                   /\ products[other].stock_code = <<req[r].body.stock_code.s>>
             /\ req[r].pc = "update" => req[r].pid \in DOMAIN products) =>
               /\ req'[r].status = 409
               /\ products' = products
      ]_vars

\* a PUT that would re-key product 2 to the stock_code another request had
\* just given product 1 was answered 409
C16_Witness ==
    \E r \in Slots :
        /\ req[r].op = "PUT" /\ req[r].pc = "done" /\ req[r].status = 409
        /\ req[r].pid = 2
        /\ 1 \in DOMAIN products /\ 2 \in DOMAIN products
        /\ products[1].stock_code = <<req[r].body.stock_code.s>>
        /\ \E o \in Slots \ {r} :
              req[o].op = "PUT" /\ req[o].status = 200 /\ req[o].pid = 1

------------------------------------------------------------------------------
(* Specification of product deletes racing with inserts of dependent rows    *)

NextRace ==
    \/ \E r \in Slots :
        \/ \E id \in {<<"1">>, <<"A">>} : Request(r, "DELETE", id, NoBody)
        \/ Connect(r)
        \/ DeleteCheck(r)
        \/ DeleteExec(r)
        \/ DeleteRefused(r)
    \/ \E pid \in ProductIds, oi \in BOOLEAN : InsertDependent(pid, oi)

SpecRace == InitMutate /\ [][NextRace]_vars

\* C17: a product row disappears only in a step at whose start no order_items
\* or inventory_movements row references it, and a DELETE that reaches its
\* answer while such a row exists answers 409.
C17_DeleteOnlyUnreferenced ==
    [][/\ \A pid \in DOMAIN products \ DOMAIN products' :
             order_items[pid] = 0 /\ inventory_movements[pid] = 0
       /\ \A r \in Slots :
            (/\ req[r].op = "DELETE" /\ req[r].pc = "delete" /\ req'[r].pc = "done"
             /\ req[r].pid \in DOMAIN products
             /\ order_items[req[r].pid] + inventory_movements[req[r].pid] > 0) =>
               req'[r].status = 409
      ]_vars

\* product 1 was deleted with 200 although an order_items row references it
C17_Witness ==
    \E r \in Slots :
        /\ req[r].op = "DELETE" /\ req[r].pc = "done" /\ req[r].status = 200
        /\ req[r].data.pid = 1 /\ 1 \notin DOMAIN products
        /\ order_items[1] = 1

------------------------------------------------------------------------------
(* Frame claims on the retail rows *)

\* C18: a retail row that exists before and after a step differs only when
\* the step is a successful PUT /api/retail/:id of that row, and a step that
\* commits an order row leaves the retail table exactly as it was.
C18_RetailChangesOnlyByPut ==
    [][/\ \A id \in DOMAIN retail \cap DOMAIN retail' :
             retail'[id] # retail[id] =>
                 resp'.status = 200 /\ guard'.op = "update" /\ guard'.id = id
       /\ Len(orders') > Len(orders) => retail' = retail
      ]_vars

\* with no request made to the retail routes, an order for 2 of "A" has
\* committed and row 1 went from 3 to 1
C18_Witness ==
    /\ resp = NoResp
    /\ orders = <<[product_id |-> "A", quantity |-> 2]>>
    /\ retail0[1].quantity = V(3)
    /\ 1 \in DOMAIN retail /\ retail[1].quantity = V(1)

\* C19: no retail row ever holds a quantity below zero, whatever orders and
\* retail requests ran: a decrement that would go below zero is refused.
C19_StockNeverNegative ==
    \A id \in DOMAIN retail :
        IsNull(retail[id].quantity) \/ retail[id].quantity[1] >= 0

\* after one order took row 1 from 3 to 1, the trigger's UPDATE for a second
\* order of 2 computed -1 and was refused
C19_Witness ==
    /\ guard.fired /\ guard.op = "trigger" /\ guard.id = 1
    /\ guard.quantity = V(-1)
    /\ 1 \in DOMAIN retail /\ retail[1].quantity = V(1)
    /\ Len(orders) = 1
    /\ \A s \in Sessions : sess[s].pc = "idle"

------------------------------------------------------------------------------
(* Specification of the inventory adjustment beside orders and retail inserts *)

NextInventory ==
    \/ \E s \in {"s1"} :
          \/ \E pid \in {"A"}, q \in {2} : InsertOrder(s, pid, q)
          \/ TrgUpdateRow(s)
          \/ Commit(s)
    \/ \E body \in {RetailBody(V(2), V(1)), RetailBody(V(-1), V(1))} :
          RetailPost(body)
    \/ \E code \in AdjustCodes, adj \in Adjustments : AdjustInventory(code, adj)

SpecInventory == InitRetail /\ [][NextInventory]_vars

\* C20: the inventory table differs after a step only when that step commits
\* an order row or inserts a retail row.
C20_InventoryChangesOnlyByInsert ==
    [][inventory' # inventory =>
          \/ Len(orders') > Len(orders)
          \/ DOMAIN retail' # DOMAIN retail
      ]_vars

\* with no order and no retail row inserted, the inventory row of "A" went
\* from 3 to 4 and the request was answered 200
C20_Witness ==
    /\ orders = <<>> /\ retail = retail0
    /\ resp.status = 200
    /\ inventory["A"].current_stock = 4
    /\ inventory["A"].available_stock = 4

------------------------------------------------------------------------------
(* Specification of failing database calls under each NODE_ENV *)

InitLeak ==
    /\ retail = EmptyTable
    /\ retail0 = retail
    /\ orders = <<>>
    /\ sess = [s \in Sessions |-> IdleSess]
    /\ lock = [id \in RetailIds |-> NoSession]
    /\ nextId = 1
    /\ guard = NoGuard
    /\ inventory = InitInventory
    /\ env \in Envs
    /\ built = <<>>
    /\ conn = [c \in Conns |-> IdleConn]
    /\ test = [r \in Slots |-> IdleTest]
    /\ resp = NoResp
    /\ products = (1 :> BaseRow(<<"A">>))
    /\ order_items = [pid \in ProductIds |-> 0]
    /\ inventory_movements = [pid \in ProductIds |-> 0]
    /\ nextPid = 2
    /\ pool = 0
    /\ req = [r \in Slots |-> IdleReq]

NextLeak ==
    \/ \E r \in {"r1"} :
        \/ \E id \in {<<"1">>, <<"2">>} : Request(r, "GET", id, NoBody)
        \/ Request(r, "SUMMARY", <<>>, NoBody)
        \/ Connect(r)
        \/ GetSelect(r)
        \/ GetAnalytics(r)
        \/ Summary(r)
        \/ \E code \in {"08006", "23505"} : QueryFails(r, code)
    \/ \E code \in AdjustCodes, adj \in Adjustments : AdjustInventory(code, adj)
    \/ \E code \in AdjustCodes, adj \in Adjustments, msg \in DbMessages :
          AdjustInventoryFails(code, adj, msg)

SpecLeak == InitLeak /\ [][NextLeak]_vars

\* C21: unless NODE_ENV is 'development', no 500 response carries the message
\* of the database error: the 500 body of a products handler has the fixed
\* message, and the 500 body of a retail route has none of the database's
\* messages, so the response is the same whatever the message was.
C21_NoDatabaseTextIn500 ==
    env # "development" =>
        /\ \A r \in Slots :
              req[r].pc = "done" /\ req[r].status = 500 =>
                  req[r].message = "Database operation failed"
        /\ (resp.status = 500 /\ "error" \in DOMAIN resp) =>
              resp.error \notin DbMessages

\* in production, adjust-inventory answered 500 with the database's message
C21_Witness ==
    /\ env = "production"
    /\ resp.status = 500
    /\ "error" \in DOMAIN resp
    /\ resp.error = "Connection terminated unexpectedly"
    /\ inventory = InitInventory

------------------------------------------------------------------------------
(* Specification of the statements GET /api/products builds, for pairs of    *)
(* requests                                                                  *)

FilterInputs ==
    [category_id : {JsUndef, JsStr(<<>>), JsStr(<<"1">>), JsStr(<<"2">>)},
     is_active : {JsUndef, JsStr(<<"true">>), JsStr(<<"false">>)},
     search : {JsUndef, JsStr(<<>>), JsStr(<<"A">>), JsStr(<<"1">>)}]

QueryInputs ==
    {NoQuery,
     [NoQuery EXCEPT !.page = JsStr(<<"2">>), !.limit = JsStr(<<"1">>)],
     [NoQuery EXCEPT !.sort_by = JsStr(<<"unit_price">>)],
     [NoQuery EXCEPT !.sort_by = JsStr(<<"A">>)],
     [NoQuery EXCEPT !.sort_order = JsStr(<<"d", "e", "s", "c">>)],
     [NoQuery EXCEPT !.sort_order = JsArr]}

AllFilters == [category_id |-> JsStr(<<"1">>), is_active |-> JsStr(<<"true">>),
               search |-> JsStr(<<"A">>)]

\* every combination of filters with the default paging and sorting, and
\* every paging and sorting with no filter and with all three
NextQuery ==
    \/ \E f \in FilterInputs : BuildQuery(f, NoQuery)
    \/ \E f \in {NoFilters, AllFilters}, q \in QueryInputs : BuildQuery(f, q)

InitQuery == InitPool /\ order_items[1] = 0

SpecQuery == InitQuery /\ [][NextQuery]_vars

\* the filters a request supplies
Supplied(f) == {c \in {"search", "category_id", "is_active"} : f[c] # JsUndef}

\* the filters of a request that produce a condition: search and category_id
\* when supplied with a non-empty value, is_active when supplied
Effective(f) ==
    {c \in {"search", "category_id"} : f[c] # JsUndef /\ f[c] # JsStr(<<>>)}
    \cup {c \in {"is_active"} : f[c] # JsUndef}

\* the ORDER BY of a request that sends SQL
SortOf(q) == <<sortColumn(QueryDefaults(q).sort_by),
               sortOrderValue(QueryDefaults(q).sort_order)>>

\* C22 as stated: two requests that supply the same filters and have the same
\* validated sort column and order send identical SQL text.
C22_TextBySuppliedFilters ==
    Len(built) = 2 /\ built[1].out.sent /\ built[2].out.sent
    /\ Supplied(built[1].filters) = Supplied(built[2].filters)
    /\ SortOf(built[1].request) = SortOf(built[2].request)
    => /\ built[1].out.query = built[2].out.query
       /\ built[1].out.countQuery = built[2].out.countQuery

\* C22 (amended): two requests with the same filters in effect (search and
\* category_id non-empty, is_active supplied) and the same validated sort
\* column and order send identical SQL text, whatever the values of search,
\* category_id, is_active, page and limit.
C22_TextByEffectiveFilters ==
    Len(built) = 2 /\ built[1].out.sent /\ built[2].out.sent
    /\ Effective(built[1].filters) = Effective(built[2].filters)
    /\ SortOf(built[1].request) = SortOf(built[2].request)
    => /\ built[1].out.query = built[2].out.query
       /\ built[1].out.countQuery = built[2].out.countQuery

\* two requests with all three filters, different in every filter value and in
\* page and limit, sent the same text with three conditions
C22_Witness ==
    /\ Len(built) = 2
    /\ built[1].out.sent /\ built[2].out.sent
    /\ Effective(built[1].filters) = {"search", "category_id", "is_active"}
    /\ built[1].filters.search = JsStr(<<"A">>)
    /\ built[2].filters.search = JsStr(<<"1">>)
    /\ built[1].filters.category_id # built[2].filters.category_id
    /\ built[2].filters.category_id # JsStr(<<>>)
    /\ built[1].filters.is_active # built[2].filters.is_active
    /\ built[2].filters.is_active # JsUndef
    /\ built[1].request.page # built[2].request.page
    /\ built[1].out.query = built[2].out.query
    /\ built[1].out.queryParams # built[2].out.queryParams

------------------------------------------------------------------------------
(* Specification of two trigger-test requests over the connections of db *)

NextTest ==
    \E r \in Slots :
        \/ \E code \in TestCodes, q \in TestQuantities, mode \in BOOLEAN :
              TestRequest(r, code, q, mode)
        \/ \E c \in Conns :
              \/ TestSelectBefore(r, c)
              \/ TestBegin(r, c)
              \/ TestInsert(r, c)
              \/ TestSelectAfter(r, c)
              \/ TestEnd(r, c)
              \/ TestCatch(r, c)

SpecTest == InitRetail /\ [][NextTest]_vars

\* C23: once a trigger-test request in test mode has completed, the retail
\* row it inserted is stored nowhere (neither committed nor held by an open
\* transaction), and when no other request ran the committed tables are as
\* they were when it arrived.
C23_TestModeRolledBack ==
    \A r \in Slots :
        test[r].pc = "done" /\ test[r].test_mode /\ test[r].id # 0
        => /\ test[r].id \notin DOMAIN retail
           /\ \A c \in Conns : test[r].id \notin DOMAIN conn[c].retail
           /\ (\A o \in Slots \ {r} : test[o].pc = "idle")
              => /\ retail = test[r].before.retail
                 /\ inventory = test[r].before.inventory

\* a request in test mode is answered 200 with no other request started, and
\* its retail row and the inventory change are committed
C23_Witness ==
    \E r \in Slots :
        /\ test[r].pc = "done" /\ test[r].test_mode /\ test[r].status = 200
        /\ \A o \in Slots \ {r} : test[o].pc = "idle"
        /\ test[r].id \in DOMAIN retail
        /\ inventory # test[r].before.inventory

------------------------------------------------------------------------------
(* Specification of POST /performance/query-analysis *)

NextAnalysis ==
    \E query \in AnalysisQueries, analyze \in BOOLEAN, buffers \in BOOLEAN :
        QueryAnalysis(query, analyze, buffers)

SpecAnalysis == InitRetail /\ [][NextAnalysis]_vars

\* a text that is one SELECT statement and calls no function that writes
ReadOnlySelect(query) ==
    /\ Len(SplitStatements(query, <<>>)) = 1
    /\ ParsesAsSelect(SplitStatements(query, <<>>)[1])
    /\ ~Mentions(query, SqlAdjust)
    /\ ~Mentions(query, SqlDelete)

\* C24: every query text that query-analysis does not answer 400 is a single
\* read-only SELECT statement, and the request changes no row of retail or
\* inventory.
C24_AcceptedIsReadOnly ==
    [][resp'.status # 400
       => /\ ReadOnlySelect(resp'.query)
          /\ retail' = retail
          /\ inventory' = inventory]_vars

\* an accepted text of two statements has emptied the retail table
C24_Witness ==
    /\ resp.status \notin {0, 400}
    /\ isSelect(resp.query)
    /\ Len(SplitStatements(resp.query, <<>>)) = 2
    /\ retail0 # <<>>
    /\ retail = <<>>

------------------------------------------------------------------------------
(* Specification of PUT /api/products/:id racing with PUT and DELETE *)

NextPutRace ==
    \E r \in Slots :
        \/ \E id \in {<<"1">>, <<"A">>}, code \in KeyCodes :
              Request(r, "PUT", id, BaseBody(code))
        \/ Request(r, "DELETE", <<"1">>, NoBody)
        \/ Connect(r)
        \/ PutCheck(r)
        \/ PutUpdate(r)
        \/ DeleteCheck(r)
        \/ DeleteExec(r)

SpecPutRace == InitMutate /\ [][NextPutRace]_vars

\* C25: when the UPDATE of a PUT is answered, a 200 carries in data the row
\* as it is stored after the step, and a PUT whose product is no longer
\* stored is answered 404.
C25_PutAnswersStoredRow ==
    [][\A r \in Slots :
          req[r].op = "PUT" /\ req[r].pc = "update" /\ req'[r].pc = "done"
          => IF req[r].pid \in DOMAIN products
             THEN req'[r].status = 200
                  => req'[r].data = [pid |-> req[r].pid,
                                     row |-> products'[req[r].pid]]
             ELSE req'[r].status = 404]_vars

\* a PUT found its product, the product was deleted before the UPDATE, and
\* the PUT is answered 200 with no row in data
C25_Witness ==
    \E r \in Slots :
        /\ req[r].op = "PUT" /\ req[r].pc = "done" /\ req[r].status = 200
        /\ req[r].data = NoData
        /\ req[r].pid \notin DOMAIN products
        /\ \E o \in Slots \ {r} :
              req[o].op = "DELETE" /\ req[o].pc = "done" /\ req[o].status = 200

------------------------------------------------------------------------------
(* The placeholders of the statements of GET /api/products *)

\* the placeholder numbers of a text, in the order they are written
PlaceholdersOf(text) ==
    LET phs == SelectSeq(text, LAMBDA tok : tok.ph # 0)
    IN [i \in 1..Len(phs) |-> phs[i].ph]

\* the WHERE clause of a text: from WHERE up to ORDER BY or the end
WhereOf(text) ==
    LET at(lit) == {i \in 1..Len(text) : text[i] = Lit(lit)}
    IN IF at("WHERE") = {} THEN <<>>
       ELSE SubSeq(text, Min(at("WHERE")),
                   IF at("ORDER BY") = {} THEN Len(text)
                   ELSE Min(at("ORDER BY")) - 1)

\* the value bound to the placeholder written after the i-th token of the
\* query
BoundAfter(o, i) == o.queryParams[o.query[i + 1].ph]

\* C26: in the statements of a request, the placeholders of the page query
\* are $1..$n in order of writing with n the number of bound values, each
\* condition's placeholder is bound to the value of its filter, LIMIT and
\* OFFSET have the last two placeholders bound to limit and offset, and the
\* count query has the same WHERE clause with the bound values less the last
\* two, its placeholders being exactly those values' positions.
C26_PlaceholdersMatchValues ==
    built # <<>> /\ built[1].out.sent =>
        LET o == built[1].out
            f == FilterDefaults(built[1].filters)
            q == QueryDefaults(built[1].request)
            n == Len(o.queryParams)
            p == PlaceholdersOf(o.query)
        IN /\ n >= 2
           /\ p[1] = 1 /\ p[Len(p)] = n
           /\ \A i \in 1..(Len(p) - 1) : p[i + 1] \in {p[i], p[i] + 1}
           /\ \A i \in 1..(Len(o.query) - 1) :
                 /\ o.query[i] \in {Lit("(description ILIKE"),
                                    Lit("OR stock_code ILIKE")}
                    => BoundAfter(o, i)
                       = JsStr(<<"%">> \o f.search.s \o <<"%">>)
                 /\ o.query[i] = Lit("category_id =")
                    => BoundAfter(o, i) = f.category_id
                 /\ o.query[i] = Lit("is_active =")
                    => BoundAfter(o, i)
                       = JsBool(f.is_active = JsStr(<<"true">>))
                 /\ o.query[i] = Lit("LIMIT")
                    => o.query[i + 1].ph = n - 1 /\ BoundAfter(o, i) = q.limit
                 /\ o.query[i] = Lit("OFFSET")
                    => /\ o.query[i + 1].ph = n
                       /\ BoundAfter(o, i)
                          = JsNum((NumberOf(q.page) - 1) * NumberOf(q.limit))
           /\ WhereOf(o.countQuery) = WhereOf(o.query)
           /\ o.countParams = SubSeq(o.queryParams, 1, n - 2)
           /\ {o.countQuery[i].ph : i \in 1..Len(o.countQuery)} \ {0}
              = 1..Len(o.countParams)

\* a request with all three filters, page 2 and limit 1: five bound values,
\* three of them for the count query
C26_Witness ==
    /\ built # <<>>
    /\ built[1].out.sent
    /\ PlaceholdersOf(built[1].out.query) = <<1, 1, 2, 3, 4, 5>>
    /\ Len(built[1].out.countParams) = 3
    /\ built[1].out.queryParams[4] = JsStr(<<"1">>)
    /\ built[1].out.queryParams[5] = JsNum(1)

====
